---- MODULE Spec2Model ----
(***************************************************************************)
(* Service Map Editor: the graph data core.                                *)
(*                                                                         *)
(*   - the schema validator        (src/src/utils/schema.ts)               *)
(*   - the two importers           (src/src/utils/import.ts)               *)
(*   - the flat snapshot exporter  (src/src/utils/export.ts)               *)
(*   - the auto-layout             (src/unnamed/part_003, utils/layout.ts) *)
(*   - the graph model and editor  (src/unnamed/part_014, src/src/App.tsx) *)
(*                                                                         *)
(* Seven specifications share the variables:                               *)
(*   SpecImport  a JSON text is validated / imported                       *)
(*   SpecLayout  computeLayout applied to a node list and an edge list     *)
(*   SpecGraph   the operations of the useGraph hook, called in any order  *)
(*   Spec        the editor: the working graph under user events           *)
(*   SpecExport  toMermaid applied to a node list and an edge list         *)
(*   SpecBFS     computeLayout step by step, one loop iteration at a time  *)
(*   SpecCanvas  the pan / zoom transform of the useCanvas hook            *)
(***************************************************************************)
EXTENDS Integers, Sequences, FiniteSets, TLC

VARIABLES
    json,        \* SpecImport: the text handed to the importer (its parse tree, or SyntaxError)
    call,        \* SpecImport: which function has run on json
    errors,      \* SpecImport: validateServiceSchema's returned list
    result,      \* SpecImport: the importer's outcome (returned graph or thrown error)
    lnodes,      \* SpecLayout: computeLayout's nodes argument
    ledges,      \* SpecLayout: computeLayout's edges argument
    lout,        \* SpecLayout: computeLayout's return value
    lpc,         \* SpecLayout: "input" before the call, "done" after; SpecBFS: "bfs" in the loop
    lbfs,        \* SpecBFS: the locals of computeLayout in its while loop (depth, queue, head)
    mermaid,     \* SpecExport: toMermaid's returned text, as its lines (<<>> before the call)
    nodes,       \* Spec, SpecGraph: useGraph's nodes state
    edges,       \* Spec, SpecGraph: useGraph's edges state
    selected,    \* Spec, SpecGraph: useGraph's selected state (<<>> is null)
    mode,        \* Spec: App's interaction mode
    connectFrom, \* Spec: App's pending connect source (<<>> is null)
    showAddNode, \* Spec: App's showAddNode state (the add-node dialog is mounted)
    showImport,  \* Spec: App's showImport state (the import dialog is mounted)
    modalError,  \* Spec: ImportModal's error state (<<>> is null)
    ops,         \* SpecGraph: how many operations of the hook have been called
    canvas,      \* SpecCanvas: useCanvas's canvas state (panX, panY, zoom)
    isPanLocked, \* SpecCanvas: useCanvas's isPanLocked state
    panDragRef   \* SpecCanvas: useCanvas's panDragRef.current (<<>> is null)

importVars == <<json, call, errors, result>>
layoutVars == <<lnodes, ledges, lout, lpc, lbfs>>
exportVars == <<mermaid>>
canvasVars == <<canvas, isPanLocked, panDragRef>>
editorVars == <<nodes, edges, selected, mode, connectFrom, showAddNode, showImport, modalError, ops>>
vars == <<json, call, errors, result, lnodes, ledges, lout, lpc, lbfs, mermaid,
          nodes, edges, selected, mode, connectFrom, showAddNode, showImport, modalError, ops,
          canvas, isPanLocked, panDragRef>>

-----------------------------------------------------------------------------
(* Generic helpers *)

\* a fraction n / d in lowest terms, d > 0: the numbers of the canvas transform
RECURSIVE GCD(_, _)
GCD(a, b) == IF b = 0 THEN a ELSE GCD(b, a % b)
Abs(a) == IF a < 0 THEN -a ELSE a
Frac(n, d) ==
    LET g == GCD(Abs(n), Abs(d))
        sign == IF d < 0 THEN -1 ELSE 1
    IN  [n |-> sign * (n \div g), d |-> sign * (d \div g)]
Whole(k) == [n |-> k, d |-> 1]
FAdd(a, b) == Frac(a.n * b.d + b.n * a.d, a.d * b.d)
FSub(a, b) == Frac(a.n * b.d - b.n * a.d, a.d * b.d)
FMul(a, b) == Frac(a.n * b.n, a.d * b.d)
FDiv(a, b) == Frac(a.n * b.d, a.d * b.n)
FLess(a, b) == a.n * b.d < b.n * a.d
FMin(a, b) == IF FLess(b, a) THEN b ELSE a
FMax(a, b) == IF FLess(a, b) THEN b ELSE a

\* useCanvas's state after the first render
CanvasAtRest ==
    /\ canvas = [panX |-> Whole(0), panY |-> Whole(0), zoom |-> Whole(1)]
    /\ isPanLocked = FALSE
    /\ panDragRef = <<>>

Range(s) == {s[i] : i \in DOMAIN s}

RECURSIVE SeqsUpTo(_, _)
\* all sequences over S of length 0..n
SeqsUpTo(S, n) ==
    IF n = 0 THEN {<<>>}
    ELSE LET shorter == SeqsUpTo(S, n - 1)
         IN  shorter \cup {Append(s, x) : s \in {t \in shorter : Len(t) = n - 1}, x \in S}

\* an optional value: undefined is <<>>, a present value v is <<v>>
undefined == <<>>
Some(v) == <<v>>

-----------------------------------------------------------------------------
(* JavaScript / JSON values, tagged by their runtime type *)

JNull == [t |-> "null"]
JUndefined == [t |-> "undefined"]
JBool(b) == [t |-> "bool", b |-> b]
JNum(n) == [t |-> "num", n |-> n]
JStr(s) == [t |-> "str", s |-> s]
JArr(a) == [t |-> "arr", a |-> a]
JObj(o) == [t |-> "obj", o |-> o]

\* the outcome of JSON.parse on a text that is not JSON
SyntaxError == [t |-> "syntax-error"]

\* typeof v === 'object' && v !== null  (true of arrays too)
IsObjectLike(v) == v.t \in {"obj", "arr"}
\* Array.isArray(v)
IsArray(v) == v.t = "arr"
\* typeof v === 'string'
IsString(v) == v.t = "str"
\* typeof v === 'number'
IsNumber(v) == v.t = "num"
\* JavaScript truthiness of a JSON value
Truthy(v) ==
    CASE v.t = "null" -> FALSE
      [] v.t = "undefined" -> FALSE
      [] v.t = "bool" -> v.b
      [] v.t = "num" -> v.n # 0
      [] v.t = "str" -> v.s # ""
      [] OTHER -> TRUE
\* v && typeof v === 'string', the shape of every "required string" test
IsNonEmptyString(v) == Truthy(v) /\ IsString(v)

\* property read v.k on an object-like value (an array has none of the keys used here)
Get(v, k) ==
    IF v.t = "obj" /\ k \in DOMAIN v.o THEN v.o[k] ELSE JUndefined

RECURSIVE JoinComma(_)
\* String(v) of the values the model builds
JSString(v) ==
    CASE v.t = "null" -> "null"
      [] v.t = "undefined" -> "undefined"
      [] v.t = "bool" -> IF v.b THEN "true" ELSE "false"
      [] v.t = "num" -> ToString(v.n)
      [] v.t = "str" -> v.s
      [] v.t = "arr" -> JoinComma(v.a)
      [] OTHER -> "[object Object]"
JoinComma(a) ==
    IF a = <<>> THEN ""
    ELSE IF Len(a) = 1 THEN (IF a[1].t \in {"null", "undefined"} THEN "" ELSE JSString(a[1]))
    ELSE JoinComma(SubSeq(a, 1, Len(a) - 1)) \o "," \o
         (IF a[Len(a)].t \in {"null", "undefined"} THEN "" ELSE JSString(a[Len(a)]))

-----------------------------------------------------------------------------
(* Type registry *)

\* Object.keys(NODE_TYPES), in declaration order
NODE_TYPE_KEYS ==
    <<"spring-boot", "nodejs", "mongodb", "kafka", "redis", "postgresql", "external">>
\* Object.keys(EDGE_TYPES), in declaration order
EDGE_TYPE_KEYS ==
    <<"REST", "SOAP", "gRPC", "GraphQL", "pub/sub", "db", "cache">>

VALID_NODE_TYPES == Range(NODE_TYPE_KEYS)
VALID_EDGE_TYPES == Range(EDGE_TYPE_KEYS)

RECURSIVE JoinKeys(_)
\* keys.join(', ')
JoinKeys(keys) ==
    IF keys = <<>> THEN ""
    ELSE IF Len(keys) = 1 THEN keys[1]
    ELSE JoinKeys(SubSeq(keys, 1, Len(keys) - 1)) \o ", " \o keys[Len(keys)]

NODE_W == 172
NODE_H == 58

-----------------------------------------------------------------------------
(* Schema validator: src/src/utils/schema.ts *)

\* a ValidationError
Err(path, message) == [path |-> path, message |-> message]

\* `/services[${i}]`, i the zero-based index
ServicePath(i) == "/services[" \o ToString(i) \o "]"
\* `${path}/integrations[${j}]`
IntegrationPath(path, j) == path \o "/integrations[" \o ToString(j) \o "]"

\* the errors of one integration entry, with the test of the label left out
IntegrationErrors_noLabel(integ, iPath) ==
    IF ~IsObjectLike(integ)
    THEN <<Err(iPath, "Each integration must be an object.")>>
    ELSE
      (IF ~IsNonEmptyString(Get(integ, "target"))
       THEN <<Err(iPath \o "/target", "\"target\" is required and must be a string.")>>
       ELSE <<>>)
      \o
      (IF Get(integ, "type") # JUndefined
          /\ (~IsString(Get(integ, "type")) \/ Get(integ, "type").s \notin VALID_EDGE_TYPES)
       THEN <<Err(iPath \o "/type",
                  "Invalid integration type \"" \o JSString(Get(integ, "type"))
                  \o "\". Valid types: " \o JoinKeys(EDGE_TYPE_KEYS) \o ".")>>
       ELSE <<>>)

\* the errors of one integration entry (the body of the loop over j)
IntegrationErrors(integ, iPath) ==
    IF ~IsObjectLike(integ)
    THEN <<Err(iPath, "Each integration must be an object.")>>
    ELSE
      (IF ~IsNonEmptyString(Get(integ, "target"))
       THEN <<Err(iPath \o "/target", "\"target\" is required and must be a string.")>>
       ELSE <<>>)
      \o
      (IF Get(integ, "type") # JUndefined
          /\ (~IsString(Get(integ, "type")) \/ Get(integ, "type").s \notin VALID_EDGE_TYPES)
       THEN <<Err(iPath \o "/type",
                  "Invalid integration type \"" \o JSString(Get(integ, "type"))
                  \o "\". Valid types: " \o JoinKeys(EDGE_TYPE_KEYS) \o ".")>>
       ELSE <<>>)
      \o
      (IF Get(integ, "label") # JUndefined /\ ~IsString(Get(integ, "label"))
       THEN <<Err(iPath \o "/label", "\"label\" must be a string if provided.")>>
       ELSE <<>>)

RECURSIVE IntegrationsErrors(_, _, _)
\* the loop over s.integrations, from (one-based) index j on
IntegrationsErrors(integs, path, j) ==
    IF j > Len(integs) THEN <<>>
    ELSE IntegrationErrors(integs[j], IntegrationPath(path, j - 1))
         \o IntegrationsErrors(integs, path, j + 1)

\* the errors of one service entry, given the ids seen before it
ServiceErrors(svc, path, seenIds) ==
    IF ~IsObjectLike(svc)
    THEN <<Err(path, "Each service must be an object.")>>
    ELSE
      (IF ~IsNonEmptyString(Get(svc, "id"))
       THEN <<Err(path \o "/id", "\"id\" is required and must be a string.")>>
       ELSE IF Get(svc, "id").s \in seenIds
            THEN <<Err(path \o "/id", "Duplicate service id \"" \o Get(svc, "id").s \o "\".")>>
            ELSE <<>>)
      \o
      (IF ~IsNonEmptyString(Get(svc, "name"))
       THEN <<Err(path \o "/name", "\"name\" is required and must be a string.")>>
       ELSE <<>>)
      \o
      (IF ~IsNonEmptyString(Get(svc, "type"))
       THEN <<Err(path \o "/type", "\"type\" is required and must be a string.")>>
       ELSE IF Get(svc, "type").s \notin VALID_NODE_TYPES
            THEN <<Err(path \o "/type",
                       "Invalid type \"" \o Get(svc, "type").s
                       \o "\". Valid types: " \o JoinKeys(NODE_TYPE_KEYS) \o ".")>>
            ELSE <<>>)
      \o
      (IF Get(svc, "namespace") # JUndefined /\ ~IsString(Get(svc, "namespace"))
       THEN <<Err(path \o "/namespace", "\"namespace\" must be a string if provided.")>>
       ELSE <<>>)
      \o
      (IF Get(svc, "integrations") = JUndefined THEN <<>>
       ELSE IF ~IsArray(Get(svc, "integrations"))
            THEN <<Err(path \o "/integrations", "\"integrations\" must be an array.")>>
            ELSE IntegrationsErrors(Get(svc, "integrations").a, path, 1))

\* seenIds after one service entry, with seenIds.add(s.id) forgotten
SeenAfter_never(svc, seenIds) == seenIds

\* seenIds after one service entry: seenIds.add(s.id) on the else branch of the id test
SeenAfter(svc, seenIds) ==
    IF IsObjectLike(svc) /\ IsNonEmptyString(Get(svc, "id"))
    THEN seenIds \cup {Get(svc, "id").s}
    ELSE seenIds

RECURSIVE ServicesErrors(_, _, _)
\* the loop over obj.services, from (one-based) index i on
ServicesErrors(services, i, seenIds) ==
    IF i > Len(services) THEN <<>>
    ELSE ServiceErrors(services[i], ServicePath(i - 1), seenIds)
         \o ServicesErrors(services, i + 1, SeenAfter(services[i], seenIds))

\* validateServiceSchema(data) without its loop over the services
validateServiceSchema_shallow(data) ==
    IF ~IsObjectLike(data)
    THEN <<Err("/", "Root must be a JSON object.")>>
    ELSE IF ~IsArray(Get(data, "services"))
         THEN <<Err("/services", "\"services\" must be an array.")>>
         ELSE <<>>

\* validateServiceSchema(data): the list of errors, empty when valid
validateServiceSchema(data) ==
    IF ~IsObjectLike(data)
    THEN <<Err("/", "Root must be a JSON object.")>>
    ELSE IF ~IsArray(Get(data, "services"))
         THEN <<Err("/services", "\"services\" must be an array.")>>
         ELSE ServicesErrors(Get(data, "services").a, 1, {})

-----------------------------------------------------------------------------
(* Canonical graph model: GraphNode, GraphEdge (src/src/App.tsx, types) *)

\* a GraphNode; namespace, width and height are optional
GraphNode(id, name, type, namespace, x, y, width, height) ==
    [id |-> id, name |-> name, type |-> type, namespace |-> namespace,
     x |-> x, y |-> y, width |-> width, height |-> height]

\* a GraphEdge; type, label and the control offsets are optional
GraphEdge(id, source, target, type, label, controlOffsetX, controlOffsetY) ==
    [id |-> id, source |-> source, target |-> target, type |-> type, label |-> label,
     controlOffsetX |-> controlOffsetX, controlOffsetY |-> controlOffsetY]

-----------------------------------------------------------------------------
(* Auto-layout: src/unnamed/part_003 (utils/layout.ts) *)

COL_GAP == 80
ROW_GAP == 40
\* the margin both running offsets start from
LAYOUT_MARGIN == 60

\* getNodeSize(node)
getNodeSize(node) ==
    [w |-> IF node.width = undefined THEN NODE_W ELSE node.width[1],
     h |-> IF node.height = undefined THEN NODE_H ELSE node.height[1]]

\* the namespace strings of the model, in the order localeCompare gives them
LOCALE_ORDER == <<"", "backend", "infra", "ns">>
\* a.localeCompare(b) < 0, = 0, > 0 as the difference of the collation ranks
LocaleCompare(a, b) ==
    (CHOOSE i \in DOMAIN LOCALE_ORDER : LOCALE_ORDER[i] = a)
    - (CHOOSE i \in DOMAIN LOCALE_ORDER : LOCALE_ORDER[i] = b)

\* node.namespace ?? ''
NamespaceOrEmpty(node) == IF node.namespace = undefined THEN "" ELSE node.namespace[1]

\* step 1: the adjacency map built by `map.get(from)?.push(to)` over the edge list;
\* only ids of nodes are keys, whatever the pushed ids are
Adjacency(ns, es, from, to) ==
    [id \in {ns[i].id : i \in DOMAIN ns} |->
        LET RECURSIVE Collect(_)
            Collect(k) ==
                IF k > Len(es) THEN <<>>
                ELSE (IF es[k][from] = id THEN <<es[k][to]>> ELSE <<>>) \o Collect(k + 1)
        IN  Collect(1)]

\* step 2: nodes.filter(n => incoming.get(n.id).length === 0)
Sources(ns, incoming) == SelectSeq(ns, LAMBDA n : incoming[n.id] = <<>>)

RECURSIVE SeedDepth(_, _, _)
\* for (const src of sources) { depth.set(src.id, 0); queue.push(src.id) }
SeedDepth(sources, k, acc) ==
    IF k > Len(sources) THEN acc
    ELSE SeedDepth(sources, k + 1,
                   [depth |-> (sources[k].id :> 0) @@ acc.depth,
                    queue |-> Append(acc.queue, sources[k].id)])

RECURSIVE VisitTargets_sameDepth(_, _, _, _)
\* the inner loop of the BFS with depth.set(target, currentDepth)
VisitTargets_sameDepth(targets, k, currentDepth, acc) ==
    IF k > Len(targets) THEN acc
    ELSE IF targets[k] \in DOMAIN acc.depth
         THEN VisitTargets_sameDepth(targets, k + 1, currentDepth, acc)
         ELSE VisitTargets_sameDepth(targets, k + 1, currentDepth,
                                     [depth |-> (targets[k] :> currentDepth) @@ acc.depth,
                                      queue |-> Append(acc.queue, targets[k])])

RECURSIVE VisitTargets(_, _, _, _)
\* the inner loop of the BFS: a target gets a depth only the first time it is seen
VisitTargets(targets, k, currentDepth, acc) ==
    IF k > Len(targets) THEN acc
    ELSE IF targets[k] \in DOMAIN acc.depth
         THEN VisitTargets(targets, k + 1, currentDepth, acc)
         ELSE VisitTargets(targets, k + 1, currentDepth,
                           [depth |-> (targets[k] :> (currentDepth + 1)) @@ acc.depth,
                            queue |-> Append(acc.queue, targets[k])])

RECURSIVE BFS(_, _, _)
\* while (head < queue.length) { ... }
BFS(outgoing, head, acc) ==
    IF head > Len(acc.queue) THEN acc
    ELSE LET current == acc.queue[head]
             targets == IF current \in DOMAIN outgoing THEN outgoing[current] ELSE <<>>
         IN  BFS(outgoing, head + 1, VisitTargets(targets, 1, acc.depth[current], acc))

\* steps 1-3: the depth map, including the fallback depth 0 of unreached nodes
ComputeDepth(ns, es) ==
    LET outgoing == Adjacency(ns, es, "source", "target")
        incoming == Adjacency(ns, es, "target", "source")
        seeded == SeedDepth(Sources(ns, incoming), 1, [depth |-> <<>>, queue |-> <<>>])
        reached == BFS(outgoing, 1, seeded).depth
    IN  [id \in DOMAIN reached \cup {ns[i].id : i \in DOMAIN ns} |->
            IF id \in DOMAIN reached THEN reached[id] ELSE 0]

RECURSIVE SortByNamespace_unstable(_)
\* the sort of a column when a node goes before the nodes of its own namespace
SortByNamespace_unstable(col) ==
    IF col = <<>> THEN <<>>
    ELSE LET front == SortByNamespace_unstable(SubSeq(col, 1, Len(col) - 1))
             n == col[Len(col)]
             keep == Cardinality({i \in DOMAIN front :
                        LocaleCompare(NamespaceOrEmpty(front[i]), NamespaceOrEmpty(n)) < 0})
         IN  SubSeq(front, 1, keep) \o <<n>> \o SubSeq(front, keep + 1, Len(front))

RECURSIVE SortByNamespace(_)
\* col.sort((a, b) => (a.namespace ?? '').localeCompare(b.namespace ?? '')), a stable sort
SortByNamespace(col) ==
    IF col = <<>> THEN <<>>
    ELSE LET front == SortByNamespace(SubSeq(col, 1, Len(col) - 1))
             n == col[Len(col)]
             keep == Cardinality({i \in DOMAIN front :
                        LocaleCompare(NamespaceOrEmpty(front[i]), NamespaceOrEmpty(n)) <= 0})
         IN  SubSeq(front, 1, keep) \o <<n>> \o SubSeq(front, keep + 1, Len(front))

\* step 4 with the column kept as a map from id to node: of the nodes that share an id
\* the last one stays
Column_uniqueIds(ns, depth, col) ==
    SortByNamespace(SelectSeq(ns, LAMBDA n :
        /\ depth[n.id] = col
        /\ n = ns[CHOOSE i \in DOMAIN ns :
                      ns[i].id = n.id /\ \A j \in DOMAIN ns : ns[j].id = n.id => j <= i]))

\* step 4: the nodes of one column, in input order, then sorted by namespace
Column(ns, depth, col) == SortByNamespace(SelectSeq(ns, LAMBDA n : depth[n.id] = col))

RECURSIVE PlaceRows_keepPlaced(_, _, _, _)
\* the loop over the rows with `x: node.x || xOffset, y: node.y || yOffset`: a node that
\* carries a position keeps it
PlaceRows_keepPlaced(colNodes, row, xOffset, yOffset) ==
    IF row > Len(colNodes) THEN <<>>
    ELSE <<[colNodes[row] EXCEPT !.x = IF @ # 0 THEN @ ELSE xOffset,
                                 !.y = IF @ # 0 THEN @ ELSE yOffset]>>
         \o PlaceRows_keepPlaced(colNodes, row + 1, xOffset,
                                 yOffset + getNodeSize(colNodes[row]).h + ROW_GAP)

RECURSIVE PlaceRows_shift(_, _, _, _)
\* the loop over the rows with `x: node.x + xOffset, y: node.y + yOffset`: a node is
\* moved by the offsets from where it was
PlaceRows_shift(colNodes, row, xOffset, yOffset) ==
    IF row > Len(colNodes) THEN <<>>
    ELSE <<[colNodes[row] EXCEPT !.x = @ + xOffset, !.y = @ + yOffset]>>
         \o PlaceRows_shift(colNodes, row + 1, xOffset,
                            yOffset + getNodeSize(colNodes[row]).h + ROW_GAP)

RECURSIVE PlaceRows(_, _, _, _)
\* the loop over the rows of one column
PlaceRows(colNodes, row, xOffset, yOffset) ==
    IF row > Len(colNodes) THEN <<>>
    ELSE <<[colNodes[row] EXCEPT !.x = xOffset, !.y = yOffset]>>
         \o PlaceRows(colNodes, row + 1, xOffset,
                      yOffset + getNodeSize(colNodes[row]).h + ROW_GAP)

RECURSIVE MaxWidth(_, _)
\* colNodes.reduce((max, n) => Math.max(max, getNodeSize(n).w), NODE_W)
MaxWidth(colNodes, k) ==
    IF k > Len(colNodes) THEN NODE_W
    ELSE LET rest == MaxWidth(colNodes, k + 1)
             w == getNodeSize(colNodes[k]).w
         IN  IF w > rest THEN w ELSE rest

RECURSIVE PlaceColumns(_, _, _, _)
\* step 5: the loop over sortedCols (the column keys in ascending order)
PlaceColumns(ns, depth, cols, xOffset) ==
    IF cols = {} THEN <<>>
    ELSE LET colIdx == CHOOSE c \in cols : \A d \in cols : c <= d
             colNodes == Column(ns, depth, colIdx)
         IN  PlaceRows(colNodes, 1, xOffset, LAYOUT_MARGIN)
             \o PlaceColumns(ns, depth, cols \ {colIdx},
                             xOffset + MaxWidth(colNodes, 1) + COL_GAP)

\* depth, queue and head before the loop is set up
NoBfs == [depth |-> <<>>, queue |-> <<>>, head |-> 0]

\* computeLayout(nodes, edges)
computeLayout(ns, es) ==
    IF ns = <<>> THEN <<>>
    ELSE LET depth == ComputeDepth(ns, es)
         IN  PlaceColumns(ns, depth, {depth[ns[i].id] : i \in DOMAIN ns}, LAYOUT_MARGIN)

-----------------------------------------------------------------------------
(* Importers: src/src/utils/import.ts *)

\* an importer's outcome: a returned ImportResult, or a thrown Error
Return(ns, es) == [ok |-> TRUE, nodes |-> ns, edges |-> es]
Throw(message) == [ok |-> FALSE, message |-> message]

\* set.has(v) for a set of strings and any value v
Has(set, v) == IsString(v) /\ v.s \in set

\* a property read on null or undefined throws a TypeError
ReadThrows(v) == v.t \in {"null", "undefined"}
TypeErrorOf(v, k) ==
    Throw("Cannot read properties of " \o JSString(v) \o " (reading '" \o k \o "')")

\* typeof v === 'string' ? v : undefined
StringOrUndefined(v) == IF IsString(v) THEN Some(v.s) ELSE undefined

RECURSIVE JoinLines(_)
\* validationErrors.map(e => `${e.path}: ${e.message}`).join('\n')
JoinLines(errs) ==
    IF errs = <<>> THEN ""
    ELSE IF Len(errs) = 1 THEN errs[1].path \o ": " \o errs[1].message
    ELSE JoinLines(SubSeq(errs, 1, Len(errs) - 1)) \o "\n"
         \o errs[Len(errs)].path \o ": " \o errs[Len(errs)].message

RECURSIVE BuildIntegrations_perService(_, _, _, _)
\* the loop over svc.integrations, with edgeCounter starting at 0 for every service
BuildIntegrations_perService(svc, integs, j, es) ==
    IF j > Len(integs) THEN Return(<<>>, es)
    ELSE LET integ == integs[j]
             edgeType == Get(integ, "type")
         IN  IF ReadThrows(integ) THEN TypeErrorOf(integ, "target")
             ELSE IF ~IsNonEmptyString(Get(integ, "target"))
             THEN Throw("Service \"" \o JSString(Get(svc, "id"))
                        \o "\": integration missing \"target\".")
             ELSE IF Truthy(edgeType) /\ ~Has(VALID_EDGE_TYPES, edgeType)
             THEN Throw("Service \"" \o JSString(Get(svc, "id"))
                        \o "\": invalid integration type \"" \o JSString(edgeType)
                        \o "\". Valid types: " \o JoinKeys(EDGE_TYPE_KEYS) \o ".")
             ELSE BuildIntegrations_perService(svc, integs, j + 1,
                     Append(es, GraphEdge("e-import-" \o ToString(j - 1),
                                          Get(svc, "id").s,
                                          Get(integ, "target").s,
                                          StringOrUndefined(edgeType),
                                          StringOrUndefined(Get(integ, "label")),
                                          undefined, undefined)))

RECURSIVE BuildIntegrations(_, _, _, _)
\* the loop over svc.integrations: appends one edge per entry, or throws
BuildIntegrations(svc, integs, j, es) ==
    IF j > Len(integs) THEN Return(<<>>, es)
    ELSE LET integ == integs[j]
             edgeType == Get(integ, "type")
         IN  IF ReadThrows(integ) THEN TypeErrorOf(integ, "target")
             ELSE IF ~IsNonEmptyString(Get(integ, "target"))
             THEN Throw("Service \"" \o JSString(Get(svc, "id"))
                        \o "\": integration missing \"target\".")
             ELSE IF Truthy(edgeType) /\ ~Has(VALID_EDGE_TYPES, edgeType)
             THEN Throw("Service \"" \o JSString(Get(svc, "id"))
                        \o "\": invalid integration type \"" \o JSString(edgeType)
                        \o "\". Valid types: " \o JoinKeys(EDGE_TYPE_KEYS) \o ".")
             ELSE BuildIntegrations(svc, integs, j + 1,
                     Append(es, GraphEdge("e-import-" \o ToString(Len(es)),
                                          Get(svc, "id").s,
                                          Get(integ, "target").s,
                                          StringOrUndefined(edgeType),
                                          StringOrUndefined(Get(integ, "label")),
                                          undefined, undefined)))

RECURSIVE BuildServices(_, _, _, _)
\* the loop over services: one node per entry and its edges, or the first throw
BuildServices(services, i, ns, es) ==
    IF i > Len(services) THEN Return(ns, es)
    ELSE LET svc == services[i]
         IN  IF ReadThrows(svc) THEN TypeErrorOf(svc, "id")
             ELSE IF ~IsNonEmptyString(Get(svc, "id"))
             THEN Throw("Service at index " \o ToString(i - 1) \o ": missing or invalid \"id\".")
             ELSE IF ~IsNonEmptyString(Get(svc, "name"))
             THEN Throw("Service \"" \o Get(svc, "id").s \o "\": missing or invalid \"name\".")
             ELSE IF ~Truthy(Get(svc, "type")) \/ ~Has(VALID_NODE_TYPES, Get(svc, "type"))
             THEN Throw("Service \"" \o Get(svc, "id").s \o "\": invalid type \""
                        \o JSString(Get(svc, "type")) \o "\". Valid types: "
                        \o JoinKeys(NODE_TYPE_KEYS) \o ".")
             ELSE LET node == GraphNode(Get(svc, "id").s, Get(svc, "name").s,
                                        Get(svc, "type").s,
                                        StringOrUndefined(Get(svc, "namespace")),
                                        0, 0, undefined, undefined)
                      built == IF IsArray(Get(svc, "integrations"))
                               THEN BuildIntegrations(svc, Get(svc, "integrations").a, 1, es)
                               ELSE Return(<<>>, es)
                  IN  IF ~built.ok THEN built
                      ELSE BuildServices(services, i + 1, Append(ns, node), built.edges)

\* importServiceSchema(json)
importServiceSchema(text) ==
    IF text = SyntaxError THEN Throw("Invalid JSON: could not parse the input.")
    ELSE LET validationErrors == validateServiceSchema(text)
         IN  IF Len(validationErrors) > 0
             THEN Throw("Validation errors:\n" \o JoinLines(validationErrors))
             ELSE LET built == BuildServices(Get(text, "services").a, 1, <<>>, <<>>)
                  IN  IF ~built.ok THEN built
                      ELSE Return(computeLayout(built.nodes, built.edges), built.edges)

\* the callback of obj.nodes.map, as strict about the type as importServiceSchema is
ImportNode_strictType(n, i) ==
    IF ReadThrows(n) THEN TypeErrorOf(n, "id")
    ELSE IF ~IsNonEmptyString(Get(n, "id"))
    THEN Throw("Node at index " \o ToString(i) \o ": missing \"id\".")
    ELSE IF ~IsNonEmptyString(Get(n, "name"))
    THEN Throw("Node \"" \o Get(n, "id").s \o "\": missing \"name\".")
    ELSE IF ~IsNumber(Get(n, "x")) \/ ~IsNumber(Get(n, "y"))
    THEN Throw("Node \"" \o Get(n, "id").s \o "\": missing x/y coordinates.")
    ELSE IF ~Has(VALID_NODE_TYPES, Get(n, "type"))
    THEN Throw("Node \"" \o Get(n, "id").s \o "\": invalid type \""
               \o JSString(Get(n, "type")) \o "\".")
    ELSE Return(<<GraphNode(Get(n, "id").s, Get(n, "name").s, Get(n, "type").s,
                            StringOrUndefined(Get(n, "namespace")),
                            Get(n, "x").n, Get(n, "y").n, undefined, undefined)>>, <<>>)

\* the callback of obj.nodes.map: one GraphNode, or a throw
ImportNode(n, i) ==
    IF ReadThrows(n) THEN TypeErrorOf(n, "id")
    ELSE IF ~IsNonEmptyString(Get(n, "id"))
    THEN Throw("Node at index " \o ToString(i) \o ": missing \"id\".")
    ELSE IF ~IsNonEmptyString(Get(n, "name"))
    THEN Throw("Node \"" \o Get(n, "id").s \o "\": missing \"name\".")
    ELSE IF ~IsNumber(Get(n, "x")) \/ ~IsNumber(Get(n, "y"))
    THEN Throw("Node \"" \o Get(n, "id").s \o "\": missing x/y coordinates.")
    ELSE Return(<<GraphNode(Get(n, "id").s, Get(n, "name").s,
                            IF Has(VALID_NODE_TYPES, Get(n, "type"))
                            THEN Get(n, "type").s ELSE "external",
                            StringOrUndefined(Get(n, "namespace")),
                            Get(n, "x").n, Get(n, "y").n, undefined, undefined)>>, <<>>)

\* the callback of obj.edges.map: one GraphEdge, or a throw
ImportEdge(e, i) ==
    IF ReadThrows(e) THEN TypeErrorOf(e, "id")
    ELSE IF ~IsNonEmptyString(Get(e, "id"))
    THEN Throw("Edge at index " \o ToString(i) \o ": missing \"id\".")
    ELSE IF ~IsNonEmptyString(Get(e, "source"))
    THEN Throw("Edge \"" \o Get(e, "id").s \o "\": missing \"source\".")
    ELSE IF ~IsNonEmptyString(Get(e, "target"))
    THEN Throw("Edge \"" \o Get(e, "id").s \o "\": missing \"target\".")
    ELSE Return(<<>>, <<GraphEdge(Get(e, "id").s, Get(e, "source").s, Get(e, "target").s,
                                  IF Has(VALID_EDGE_TYPES, Get(e, "type"))
                                  THEN Some(Get(e, "type").s) ELSE undefined,
                                  StringOrUndefined(Get(e, "label")),
                                  undefined, undefined)>>)

RECURSIVE MapItems(_, _, _, _)
\* array.map(callback) where the callback may throw: the mapped items so far, or the throw
MapItems(items, i, isNode, acc) ==
    IF i > Len(items) THEN acc
    ELSE LET one == IF isNode THEN ImportNode(items[i], i - 1) ELSE ImportEdge(items[i], i - 1)
         IN  IF ~one.ok THEN one
             ELSE MapItems(items, i + 1, isNode,
                           Return(acc.nodes \o one.nodes, acc.edges \o one.edges))

\* importSchemaExport(json)
importSchemaExport(text) ==
    IF text = SyntaxError THEN Throw("Invalid JSON: could not parse the input.")
    ELSE IF ~IsObjectLike(text) THEN Throw("Invalid schema-export: expected a JSON object.")
    ELSE IF ~IsArray(Get(text, "nodes")) THEN Throw("Invalid schema-export: missing \"nodes\" array.")
    ELSE IF ~IsArray(Get(text, "edges")) THEN Throw("Invalid schema-export: missing \"edges\" array.")
    ELSE LET ns == MapItems(Get(text, "nodes").a, 1, TRUE, Return(<<>>, <<>>))
         IN  IF ~ns.ok THEN ns
             ELSE MapItems(Get(text, "edges").a, 1, FALSE, ns)

-----------------------------------------------------------------------------
(* Flat snapshot export: src/src/utils/export.ts *)

\* v ?? null, for an optional string
StrOrNull(opt) == IF opt = undefined THEN JNull ELSE JStr(opt[1])

\* new Date().toISOString(): some timestamp; no importer reads it
EXPORTED_AT == "2024-01-01T00:00:00.000Z"

\* toSchemaExport(nodes, edges): the JSON text, as the tree JSON.parse gives back
toSchemaExport(ns, es) ==
    JObj([version |-> JStr("1.0"),
          exportedAt |-> JStr(EXPORTED_AT),
          nodes |-> JArr([i \in DOMAIN ns |->
                        JObj([id |-> JStr(ns[i].id), name |-> JStr(ns[i].name),
                              type |-> JStr(ns[i].type),
                              namespace |-> StrOrNull(ns[i].namespace),
                              x |-> JNum(ns[i].x), y |-> JNum(ns[i].y)])]),
          edges |-> JArr([i \in DOMAIN es |->
                        JObj([id |-> JStr(es[i].id), source |-> JStr(es[i].source),
                              target |-> JStr(es[i].target),
                              type |-> StrOrNull(es[i].type),
                              label |-> StrOrNull(es[i].label)])])])

-----------------------------------------------------------------------------
(* Diagram markup export: src/src/utils/export.ts, toMermaid *)

\* NODE_TYPES[key].label
NODE_TYPE_LABELS ==
    [k \in VALID_NODE_TYPES |->
        CASE k = "spring-boot" -> "Spring Boot"
          [] k = "nodejs" -> "Node.js"
          [] k = "mongodb" -> "MongoDB"
          [] k = "kafka" -> "Kafka"
          [] k = "redis" -> "Redis"
          [] k = "postgresql" -> "PostgreSQL"
          [] OTHER -> "External"]

\* NODE_TYPES[n.type]?.label ?? n.type
TypeLabel(type) == IF type \in DOMAIN NODE_TYPE_LABELS THEN NODE_TYPE_LABELS[type] ELSE type

\* `${n.id}["${n.name}<br/><small>${typeLabel}</small>"]`
Declaration(n) ==
    n.id \o "[\"" \o n.name \o "<br/><small>" \o TypeLabel(n.type) \o "</small>\"]"

\* `if (node.namespace)` with every defined namespace taken for a group
Grouped_defined(n) == n.namespace # undefined

\* `if (node.namespace)`: the node goes into the map of namespaces, not into ungrouped
Grouped(n) == n.namespace # undefined /\ n.namespace[1] # ""

RECURSIVE NamespaceKeys(_, _, _)
\* the keys of the namespaces Map, in the order of their insertion
NamespaceKeys(ns, i, keys) ==
    IF i > Len(ns) THEN keys
    ELSE NamespaceKeys(ns, i + 1,
            IF Grouped(ns[i]) /\ ns[i].namespace[1] \notin Range(keys)
            THEN Append(keys, ns[i].namespace[1]) ELSE keys)

\* the lines pushed for one entry [ns, nsNodes] of the Map
SubgraphLines(ns, key) ==
    LET nsNodes == SelectSeq(ns, LAMBDA n : Grouped(n) /\ n.namespace[1] = key)
    IN  <<"  subgraph " \o key>>
        \o [j \in DOMAIN nsNodes |-> "    " \o Declaration(nsNodes[j])]
        \o <<"  end">>

RECURSIVE AllSubgraphLines(_, _, _)
\* for (const [ns, nsNodes] of namespaces) { ... }
AllSubgraphLines(ns, keys, k) ==
    IF k > Len(keys) THEN <<>>
    ELSE SubgraphLines(ns, keys[k]) \o AllSubgraphLines(ns, keys, k + 1)

\* e.type || e.label, <<>> when neither is a non-empty string
EdgeText(e) ==
    IF e.type # undefined /\ e.type[1] # "" THEN e.type
    ELSE IF e.label # undefined /\ e.label[1] # "" THEN e.label
    ELSE undefined

\* the line pushed for one edge
ArrowLine(e) ==
    IF EdgeText(e) # undefined
    THEN "  " \o e.source \o " -->|" \o EdgeText(e)[1] \o "| " \o e.target
    ELSE "  " \o e.source \o " --> " \o e.target

\* toMermaid(nodes, edges): the returned text lines.join('\n') as the list of its lines
\* (no id, name, namespace, type or label of the model holds a line break)
toMermaid(ns, es) ==
    LET ungrouped == SelectSeq(ns, LAMBDA n : ~Grouped(n))
    IN  <<"graph LR">>
        \o AllSubgraphLines(ns, NamespaceKeys(ns, 1, <<>>), 1)
        \o [j \in DOMAIN ungrouped |-> "  " \o Declaration(ungrouped[j])]
        \o [k \in DOMAIN es |-> ArrowLine(es[k])]

-----------------------------------------------------------------------------
(* Inputs of SpecImport: JSON texts, bounded *)

MaxServices == 3
MaxIntegrations == 2
MaxFlatItems == 2

\* a JSON object from a record of optional values: undefined fields are absent keys
Fields(f) == JObj([k \in {k \in DOMAIN f : f[k] # undefined} |-> f[k][1]])

\* integration entries: every combination of a good or missing target, a good, missing
\* or bad type and a good or bad label; entries without label; a target that names no
\* service ("zz"); and two entries that are no objects
IntegrationEntries ==
    {JNum(7), JArr(<<>>), JObj(<<>>), JObj([target |-> JStr("a")]),
     JObj([target |-> JStr("zz")])} \cup
    {Fields([target |-> t, type |-> ty, label |-> l]) :
        t \in {undefined, Some(JStr("a"))},
        ty \in {undefined, Some(JStr("cache")), Some(JStr("bogus"))},
        l \in {Some(JStr("l")), Some(JNum(5))}}

\* one-service documents over every combination of the service's own fields
DeepServiceEntries ==
    {Fields([id |-> i, name |-> n, type |-> ty, namespace |-> ns, integrations |-> g]) :
        i \in {undefined, Some(JStr("")), Some(JStr("a")), Some(JNum(1))},
        n \in {undefined, Some(JStr("A")), Some(JNull)},
        ty \in {undefined, Some(JStr("redis")), Some(JStr("bogus")), Some(JNum(2))},
        ns \in {undefined, Some(JStr("ns")), Some(JNull)},
        g \in {undefined, Some(JStr("x")), Some(JArr(<<>>)),
               Some(JArr(<<Fields([target |-> Some(JStr("a")), type |-> Some(JStr("db")),
                                   label |-> undefined])>>)),
               Some(JArr(<<Fields([target |-> undefined, type |-> undefined,
                                   label |-> undefined])>>))}}

\* one valid service whose integrations vary
IntegrationDocs ==
    {JObj([services |-> JArr(<<Fields([id |-> Some(JStr("a")), name |-> Some(JStr("A")),
                                       type |-> Some(JStr("redis")), namespace |-> undefined,
                                       integrations |-> Some(JArr(g))])>>)]) :
        g \in SeqsUpTo(IntegrationEntries, MaxIntegrations)}

\* the registry type each wide entry carries when its type is valid
WideType(i) == CASE i = "a" -> "redis" [] i = "b" -> "nodejs" [] OTHER -> "kafka"

\* an entry of the many-service documents: id i, valid ("plain"), with a bad type
\* ("bogus"), or with one integration (to a, to b, without target)
WideEntry(i, v) ==
    Fields([id |-> Some(JStr(i)), name |-> Some(JStr(i)),
            type |-> Some(JStr(IF v = "bogus" THEN "bogus" ELSE WideType(i))),
            namespace |-> undefined,
            integrations |->
               CASE v = "to-a" -> Some(JArr(<<Fields([target |-> Some(JStr("a")),
                                                      type |-> Some(JStr("cache"))])>>))
                 [] v = "to-b" -> Some(JArr(<<Fields([target |-> Some(JStr("b")),
                                                      type |-> undefined])>>))
                 [] v = "no-target" -> Some(JArr(<<Fields([target |-> undefined,
                                                           type |-> Some(JStr("REST"))])>>))
                 [] OTHER -> undefined])

WideServiceEntries ==
    {JNum(3),
     WideEntry("a", "plain"), WideEntry("a", "bogus"), WideEntry("a", "to-a"),
     WideEntry("a", "to-b"),
     WideEntry("b", "plain"), WideEntry("b", "to-a"), WideEntry("b", "no-target"),
     WideEntry("c", "plain"), WideEntry("c", "bogus"), WideEntry("c", "to-b")}

\* service entries that are no JSON object
NonObjectEntries == {JNull, JNum(3), JStr("a"), JBool(TRUE), JArr(<<>>), JArr(<<JStr("a")>>)}

ServiceDocs ==
    {JObj([services |-> JArr(<<e>>)]) : e \in DeepServiceEntries \cup NonObjectEntries}
    \cup IntegrationDocs
    \cup {JObj([services |-> JArr(g), version |-> JStr("1.0")]) :
            g \in SeqsUpTo(WideServiceEntries, MaxServices)}

\* node and edge entries of flat snapshots
FlatNodeA == Fields([id |-> Some(JStr("a")), name |-> Some(JStr("N")),
                     type |-> Some(JStr("redis")), namespace |-> Some(JNull),
                     x |-> Some(JNum(10)), y |-> Some(JNum(20))])
FlatNodeB == Fields([id |-> Some(JStr("b")), name |-> Some(JStr("M")),
                     type |-> Some(JStr("bogus")), namespace |-> Some(JStr("ns")),
                     x |-> Some(JNum(30)), y |-> Some(JNum(0))])
FlatNodeEntries ==
    {JNull, FlatNodeA, FlatNodeB,
     Fields([id |-> Some(JStr("b")), name |-> Some(JStr("N")), x |-> Some(JNum(10)),
             y |-> Some(JNum(20))]),
     Fields([id |-> Some(JStr("a")), name |-> Some(JStr("N")), x |-> Some(JNum(10)),
             y |-> undefined]),
     Fields([id |-> Some(JStr("b")), name |-> undefined, x |-> Some(JNum(10)),
             y |-> Some(JNum(20))]),
     Fields([id |-> undefined, name |-> Some(JStr("N")), x |-> Some(JNum(10)),
             y |-> Some(JNum(20))]),
     Fields([id |-> Some(JStr("c")), name |-> Some(JStr("K")), type |-> Some(JNum(5)),
             x |-> Some(JNum(0)), y |-> Some(JNum(50))])}

FlatEdgeAB == Fields([id |-> Some(JStr("e1")), source |-> Some(JStr("a")),
                      target |-> Some(JStr("b")), type |-> Some(JStr("REST")),
                      label |-> Some(JNull)])
FlatEdgeBad == Fields([id |-> Some(JStr("e1")), source |-> undefined,
                       target |-> Some(JStr("b"))])
FlatEdgeEntries ==
    {FlatEdgeAB, FlatEdgeBad,
     Fields([id |-> Some(JStr("e2")), source |-> Some(JStr("b")), target |-> Some(JStr("a")),
             type |-> Some(JStr("bogus")), label |-> Some(JStr("l"))]),
     Fields([id |-> Some(JStr("e3")), source |-> Some(JStr("a")), target |-> Some(JStr("zz")),
             type |-> undefined, label |-> undefined]),
     Fields([id |-> undefined, source |-> Some(JStr("a")), target |-> Some(JStr("b"))]),
     Fields([id |-> Some(JStr("e4")), source |-> Some(JStr("b")), target |-> Some(JStr("b")),
             type |-> Some(JNull), label |-> Some(JStr("self"))]),
     JNum(4)}

FlatDoc(ns, es) ==
    JObj([version |-> JStr("1.0"), exportedAt |-> JStr(EXPORTED_AT),
          nodes |-> JArr(ns), edges |-> JArr(es)])

\* flat snapshots: any nodes with few edge lists, and any edges over the nodes a and b
FlatDocs ==
    {FlatDoc(ns, es) : ns \in SeqsUpTo(FlatNodeEntries, MaxFlatItems),
                       es \in {<<>>, <<FlatEdgeAB>>, <<FlatEdgeBad>>}}
    \cup {FlatDoc(<<FlatNodeA, FlatNodeB>>, es) : es \in SeqsUpTo(FlatEdgeEntries, MaxFlatItems)}
    \cup {JObj([nodes |-> JArr(<<>>)]), JObj([edges |-> JArr(<<>>)]),
          JObj([nodes |-> JStr("x"), edges |-> JArr(<<>>)])}

\* roots that are no object, and objects whose services is absent or no array
BadContainers ==
    {JNull, JNum(0), JNum(42), JStr(""), JStr("services"), JBool(TRUE), JBool(FALSE),
     JArr(<<>>), JArr(<<JObj([services |-> JArr(<<>>)])>>),
     JObj(<<>>), JObj([services |-> JNull]), JObj([services |-> JStr("a")]),
     JObj([services |-> JNum(1)]), JObj([services |-> JObj(<<>>)]),
     JObj([version |-> JStr("1.0")])}

\* every text the import dialog may be handed
Inputs == {SyntaxError} \cup BadContainers \cup ServiceDocs \cup FlatDocs

-----------------------------------------------------------------------------
(* SpecImport: one of the three functions is applied to a text *)

NoErrors == <<>>
NoResult == [ok |-> FALSE, message |-> "<not called>"]

InitOther ==
    /\ lnodes = <<>> /\ ledges = <<>> /\ lout = <<>> /\ lpc = "idle" /\ lbfs = NoBfs
    /\ mermaid = <<>>
    /\ CanvasAtRest
    /\ nodes = <<>> /\ edges = <<>> /\ selected = <<>> /\ mode = "select"
    /\ connectFrom = <<>> /\ showAddNode = FALSE /\ showImport = FALSE
    /\ modalError = <<>> /\ ops = 0

InitImport ==
    /\ json \in Inputs
    /\ call = "none"
    /\ errors = NoErrors
    /\ result = NoResult
    /\ InitOther

\* validateServiceSchema(JSON.parse(json)), for a text that parses
CallValidate ==
    /\ call = "none"
    /\ json # SyntaxError
    /\ call' = "validateServiceSchema"
    /\ errors' = validateServiceSchema(json)
    /\ UNCHANGED <<json, result, layoutVars, exportVars, canvasVars, editorVars>>

CallImportServiceSchema ==
    /\ call = "none"
    /\ call' = "importServiceSchema"
    /\ result' = importServiceSchema(json)
    /\ UNCHANGED <<json, errors, layoutVars, exportVars, canvasVars, editorVars>>

CallImportSchemaExport ==
    /\ call = "none"
    /\ call' = "importSchemaExport"
    /\ result' = importSchemaExport(json)
    /\ UNCHANGED <<json, errors, layoutVars, exportVars, canvasVars, editorVars>>

NextImport == CallValidate \/ CallImportServiceSchema \/ CallImportSchemaExport

SpecImport == InitImport /\ [][NextImport]_vars

-----------------------------------------------------------------------------
(* SpecLayout: computeLayout applied to a node list and an edge list *)

MaxLayoutEdges == 4

\* the node ids of the layout inputs
LayoutIds == <<"A", "B", "C", "D">>

\* the ordered pairs an edge may connect: every pair in the order of LayoutIds, which
\* with the permutations of the node list gives every acyclic graph in every order,
\* and the back edge C -> A, which closes cycles of two and of three nodes
LayoutPairs ==
    {p \in {<<LayoutIds[i], LayoutIds[j]>> : i, j \in DOMAIN LayoutIds} :
        \E i, j \in DOMAIN LayoutIds : i < j /\ p = <<LayoutIds[i], LayoutIds[j]>>}
    \cup {<<"C", "A">>}

\* the node an id names in the layout inputs
LayoutNode(id) == GraphNode(id, id, "nodejs", undefined, 0, 0, undefined, undefined)
\* the edge a pair names in the layout inputs
LayoutEdge(pair) ==
    GraphEdge("e-" \o pair[1] \o "-" \o pair[2], pair[1], pair[2],
              undefined, undefined, undefined, undefined)

RECURSIVE InjectiveSeqs(_, _)
\* the sequences without repetition over S, of length 0..n
InjectiveSeqs(S, n) ==
    IF n = 0 THEN {<<>>}
    ELSE LET shorter == InjectiveSeqs(S, n - 1)
         IN  shorter \cup UNION {{Append(s, x) : x \in S \ Range(s)} :
                                    s \in {t \in shorter : Len(t) = n - 1}}

\* the same node as it may come from a canvas: with a namespace, a position, and a size
\* as resizing leaves it (width 120..400, height 48..200)
StyledNode(id) ==
    CASE id = "A" -> GraphNode(id, id, "redis", Some("infra"), 5, 7, Some(120), undefined)
      [] id = "B" -> GraphNode(id, id, "kafka", Some("backend"), 0, 40, undefined, Some(100))
      [] id = "C" -> GraphNode(id, id, "nodejs", Some(""), 300, 0, undefined, undefined)
      [] OTHER -> GraphNode(id, id, "external", undefined, 60, -20, Some(400), Some(48))

\* the orders of the node ids: every order of all four nodes, and the prefixes of
\* LayoutIds (an edge naming a node beyond the prefix then references no node of the list)
LayoutIdLists ==
    {q \in InjectiveSeqs(Range(LayoutIds), Len(LayoutIds)) : Len(q) = Len(LayoutIds)}
    \cup {SubSeq(LayoutIds, 1, n) : n \in 0..Len(LayoutIds)}

\* node lists: the id lists as plain nodes and as styled nodes, and a list that holds
\* the id A twice
LayoutNodeLists ==
    {[i \in DOMAIN p |-> LayoutNode(p[i])] : p \in LayoutIdLists}
    \cup {[i \in DOMAIN p |-> StyledNode(p[i])] : p \in LayoutIdLists}
    \cup {<<LayoutNode("A"), StyledNode("B"), StyledNode("A")>>}

LayoutEdgeLists ==
    {[i \in DOMAIN p |-> LayoutEdge(p[i])] : p \in InjectiveSeqs(LayoutPairs, MaxLayoutEdges)}

InitLayout ==
    /\ lnodes \in LayoutNodeLists
    /\ ledges \in LayoutEdgeLists
    /\ lout = <<>>
    /\ lpc = "input"
    /\ lbfs = NoBfs /\ mermaid = <<>>
    /\ CanvasAtRest
    /\ json = SyntaxError /\ call = "idle" /\ errors = NoErrors /\ result = NoResult
    /\ nodes = <<>> /\ edges = <<>> /\ selected = <<>> /\ mode = "select"
    /\ connectFrom = <<>> /\ showAddNode = FALSE /\ showImport = FALSE
    /\ modalError = <<>> /\ ops = 0

CallComputeLayout ==
    /\ lpc = "input"
    /\ lout' = computeLayout(lnodes, ledges)
    /\ lpc' = "done"
    /\ UNCHANGED <<lnodes, ledges, lbfs, importVars, exportVars, canvasVars, editorVars>>

NextLayout == CallComputeLayout

SpecLayout == InitLayout /\ [][NextLayout]_vars

-----------------------------------------------------------------------------
(* SpecBFS: computeLayout run one iteration of its while loop at a time. The repository
   holds two files that define it: src/unnamed/part_003, which the sections above
   follow, and src/unnamed/part_002, whose loop raises a depth whenever a greater one
   is offered. A call runs one of the two. *)

MaxBfsEdges == 3
\* no iteration starts from a node deeper than this
BfsDepthCap == 4

\* the ids the edges of the direct inputs connect
BfsIds == {"A", "B", "C"}
\* every edge between two of them, and the loop A -> A
BfsPairs == {p \in BfsIds \X BfsIds : p[1] # p[2]} \cup {<<"A", "A">>}

\* service documents whose integrations close a cycle: a <-> b alone, the same cycle
\* entered from the source c, and a naming itself
CyclicDocs ==
    {JObj([services |-> JArr(<<WideEntry("a", "to-b"), WideEntry("b", "to-a")>>)]),
     JObj([services |-> JArr(<<WideEntry("a", "to-b"), WideEntry("b", "to-a"),
                               WideEntry("c", "to-b")>>)]),
     JObj([services |-> JArr(<<WideEntry("c", "to-b"), WideEntry("b", "to-a"),
                               WideEntry("a", "to-b")>>)]),
     JObj([services |-> JArr(<<WideEntry("a", "to-a"), WideEntry("b", "plain")>>)])}

\* the arguments of computeLayout: the nodes A, B, C (or A, B, with C then no node)
\* under every list of edges, and what importServiceSchema hands over for a document
BfsInputs ==
    {[nodes |-> [i \in DOMAIN ids |-> LayoutNode(ids[i])],
      edges |-> [i \in DOMAIN p |-> LayoutEdge(p[i])]] :
        ids \in {<<"A", "B", "C">>, <<"A", "B">>},
        p \in InjectiveSeqs(BfsPairs, MaxBfsEdges)}
    \cup {[nodes |-> BuildServices(doc.o.services.a, 1, <<>>, <<>>).nodes,
           edges |-> BuildServices(doc.o.services.a, 1, <<>>, <<>>).edges] : doc \in CyclicDocs}

InitBFS ==
    /\ \E input \in BfsInputs : lnodes = input.nodes /\ ledges = input.edges
    /\ lout = <<>>
    /\ lpc = "input"
    /\ lbfs = NoBfs /\ mermaid = <<>>
    /\ CanvasAtRest
    /\ json = SyntaxError /\ call = "idle" /\ errors = NoErrors /\ result = NoResult
    /\ nodes = <<>> /\ edges = <<>> /\ selected = <<>> /\ mode = "select"
    /\ connectFrom = <<>> /\ showAddNode = FALSE /\ showImport = FALSE
    /\ modalError = <<>> /\ ops = 0

\* computeLayout up to its while loop: the early return for no nodes, else steps 1-2
\* and the seeding of depth and queue with the sources
LayoutBegin ==
    /\ lpc = "input"
    /\ IF lnodes = <<>>
       THEN lout' = <<>> /\ lpc' = "done" /\ UNCHANGED lbfs
       ELSE LET incoming == Adjacency(lnodes, ledges, "target", "source")
                seeded == SeedDepth(Sources(lnodes, incoming), 1,
                                    [depth |-> <<>>, queue |-> <<>>])
            IN  /\ lbfs' = [depth |-> seeded.depth, queue |-> seeded.queue, head |-> 0]
                /\ lpc' = "bfs" /\ UNCHANGED lout
    /\ UNCHANGED <<lnodes, ledges, importVars, exportVars, canvasVars, editorVars>>

\* one iteration of `while (head < queue.length)`
BfsIteration ==
    /\ lpc = "bfs"
    /\ lbfs.head < Len(lbfs.queue)
    /\ LET outgoing == Adjacency(lnodes, ledges, "source", "target")
           current == lbfs.queue[lbfs.head + 1]
           targets == IF current \in DOMAIN outgoing THEN outgoing[current] ELSE <<>>
           acc == VisitTargets(targets, 1, lbfs.depth[current],
                               [depth |-> lbfs.depth, queue |-> lbfs.queue])
       IN  /\ lbfs.depth[current] < BfsDepthCap
           /\ lbfs' = [depth |-> acc.depth, queue |-> acc.queue, head |-> lbfs.head + 1]
    /\ UNCHANGED <<lnodes, ledges, lout, lpc, importVars, exportVars, canvasVars, editorVars>>

\* computeLayout after its while loop: depth 0 for the nodes not reached, steps 4-5, return
LayoutEnd ==
    /\ lpc = "bfs"
    /\ lbfs.head >= Len(lbfs.queue)
    /\ LET depth == [id \in DOMAIN lbfs.depth \cup {lnodes[i].id : i \in DOMAIN lnodes} |->
                        IF id \in DOMAIN lbfs.depth THEN lbfs.depth[id] ELSE 0]
       IN  lout' = PlaceColumns(lnodes, depth, {depth[lnodes[i].id] : i \in DOMAIN lnodes},
                                LAYOUT_MARGIN)
    /\ lpc' = "done"
    /\ UNCHANGED <<lnodes, ledges, lbfs, importVars, exportVars, canvasVars, editorVars>>

RECURSIVE SeedRest(_, _, _)
\* part_002: for (const node of nodes) if (!depth.has(node.id)) { depth.set(node.id, 0);
\* queue.push(node.id) }
SeedRest(ns, k, acc) ==
    IF k > Len(ns) THEN acc
    ELSE IF ns[k].id \in DOMAIN acc.depth THEN SeedRest(ns, k + 1, acc)
    ELSE SeedRest(ns, k + 1, [depth |-> (ns[k].id :> 0) @@ acc.depth,
                              queue |-> Append(acc.queue, ns[k].id)])

RECURSIVE RelaxTargets(_, _, _, _)
\* part_002, the inner loop: `if (currentDepth + 1 > existingDepth)` sets the depth of
\* the target and queues it, every time a greater depth is offered
RelaxTargets(targets, k, currentDepth, acc) ==
    IF k > Len(targets) THEN acc
    ELSE LET existingDepth == IF targets[k] \in DOMAIN acc.depth
                              THEN acc.depth[targets[k]] ELSE -1
         IN  IF currentDepth + 1 > existingDepth
             THEN RelaxTargets(targets, k + 1, currentDepth,
                               [depth |-> (targets[k] :> (currentDepth + 1)) @@ acc.depth,
                                queue |-> Append(acc.queue, targets[k])])
             ELSE RelaxTargets(targets, k + 1, currentDepth, acc)

RECURSIVE PlaceRowsByIndex(_, _, _)
\* part_002, the loop over the rows: y = 60 + row * (NODE_H + ROW_GAP), rows from 0
PlaceRowsByIndex(colNodes, row, x) ==
    IF row > Len(colNodes) THEN <<>>
    ELSE <<[colNodes[row] EXCEPT !.x = x,
                                 !.y = LAYOUT_MARGIN + (row - 1) * (NODE_H + ROW_GAP)]>>
         \o PlaceRowsByIndex(colNodes, row + 1, x)

RECURSIVE PlaceColumnsByDepth(_, _, _)
\* part_002, step 5: x = 60 + colIdx * (NODE_W + COL_GAP) for the column keys in order
PlaceColumnsByDepth(ns, depth, cols) ==
    IF cols = {} THEN <<>>
    ELSE LET colIdx == CHOOSE c \in cols : \A d \in cols : c <= d
         IN  PlaceRowsByIndex(Column(ns, depth, colIdx), 1,
                              LAYOUT_MARGIN + colIdx * (NODE_W + COL_GAP))
             \o PlaceColumnsByDepth(ns, depth, cols \ {colIdx})

RECURSIVE RelaxLoop(_, _, _)
\* part_002's `while (head < queue.length)` run to its end on a graph without a cycle;
\* `fuel` bounds the evaluation and is never used up on such a graph
RelaxLoop(outgoing, st, fuel) ==
    IF st.head >= Len(st.queue) \/ fuel = 0 THEN st
    ELSE LET current == st.queue[st.head + 1]
             targets == IF current \in DOMAIN outgoing THEN outgoing[current] ELSE <<>>
             acc == RelaxTargets(targets, 1, st.depth[current],
                                 [depth |-> st.depth, queue |-> st.queue])
         IN  RelaxLoop(outgoing,
                       [depth |-> acc.depth, queue |-> acc.queue, head |-> st.head + 1],
                       fuel - 1)

\* part_002's computeLayout as a function of nodes and edges
computeLayoutRelax(ns, es) ==
    IF ns = <<>> THEN <<>>
    ELSE LET incoming == Adjacency(ns, es, "target", "source")
             outgoing == Adjacency(ns, es, "source", "target")
             seeded == SeedRest(ns, 1,
                           SeedDepth(Sources(ns, incoming), 1,
                                     [depth |-> <<>>, queue |-> <<>>]))
             st == RelaxLoop(outgoing,
                             [depth |-> seeded.depth, queue |-> seeded.queue, head |-> 0],
                             (Len(ns) + Len(es) + 1) * (Len(ns) + Len(es) + 1))
         IN  PlaceColumnsByDepth(ns, st.depth, {st.depth[ns[i].id] : i \in DOMAIN ns})

\* part_002's computeLayout up to its while loop: the sources are seeded, then every
\* other node, all with depth 0
LayoutBeginRelax ==
    /\ lpc = "input"
    /\ IF lnodes = <<>>
       THEN lout' = <<>> /\ lpc' = "done" /\ UNCHANGED lbfs
       ELSE LET incoming == Adjacency(lnodes, ledges, "target", "source")
                seeded == SeedRest(lnodes, 1,
                              SeedDepth(Sources(lnodes, incoming), 1,
                                        [depth |-> <<>>, queue |-> <<>>]))
            IN  /\ lbfs' = [depth |-> seeded.depth, queue |-> seeded.queue, head |-> 0]
                /\ lpc' = "relax" /\ UNCHANGED lout
    /\ UNCHANGED <<lnodes, ledges, importVars, exportVars, canvasVars, editorVars>>

\* one iteration of part_002's `while (head < queue.length)`
BfsIterationRelax ==
    /\ lpc = "relax"
    /\ lbfs.head < Len(lbfs.queue)
    /\ LET outgoing == Adjacency(lnodes, ledges, "source", "target")
           current == lbfs.queue[lbfs.head + 1]
           targets == IF current \in DOMAIN outgoing THEN outgoing[current] ELSE <<>>
           acc == RelaxTargets(targets, 1, lbfs.depth[current],
                               [depth |-> lbfs.depth, queue |-> lbfs.queue])
       IN  /\ lbfs.depth[current] < BfsDepthCap
           /\ lbfs' = [depth |-> acc.depth, queue |-> acc.queue, head |-> lbfs.head + 1]
    /\ UNCHANGED <<lnodes, ledges, lout, lpc, importVars, exportVars, canvasVars, editorVars>>

\* part_002's computeLayout after its while loop: steps 4-5, return
LayoutEndRelax ==
    /\ lpc = "relax"
    /\ lbfs.head >= Len(lbfs.queue)
    /\ lout' = PlaceColumnsByDepth(lnodes, lbfs.depth,
                                   {lbfs.depth[lnodes[i].id] : i \in DOMAIN lnodes})
    /\ lpc' = "done"
    /\ UNCHANGED <<lnodes, ledges, lbfs, importVars, exportVars, canvasVars, editorVars>>

NextBFS ==
    \/ LayoutBegin \/ BfsIteration \/ LayoutEnd
    \/ LayoutBeginRelax \/ BfsIterationRelax \/ LayoutEndRelax

\* the call runs on: nothing else is scheduled with it
SpecBFS == InitBFS /\ [][NextBFS]_vars /\ WF_vars(NextBFS)

-----------------------------------------------------------------------------
(* Graph state: the useGraph hook, src/unnamed/part_014 lines 298-433 *)

DemoNode(id, type, x, y) == GraphNode(id, id, type, undefined, x, y, undefined, undefined)
DemoEdge(id, source, target, type) ==
    GraphEdge(id, source, target, Some(type), undefined, undefined, undefined)

DEMO_NODES ==
    <<DemoNode("api-gateway", "spring-boot", 380, 60),
      DemoNode("user-service", "spring-boot", 120, 200),
      DemoNode("order-service", "spring-boot", 380, 200),
      DemoNode("notification-service", "nodejs", 640, 200),
      DemoNode("redis-cache", "redis", 120, 360),
      DemoNode("kafka-cluster", "kafka", 380, 360),
      DemoNode("postgres-users", "postgresql", 120, 500),
      DemoNode("postgres-orders", "postgresql", 380, 500),
      DemoNode("mongodb-notifications", "mongodb", 640, 360)>>

DEMO_EDGES ==
    <<DemoEdge("e1", "api-gateway", "user-service", "REST"),
      DemoEdge("e2", "api-gateway", "order-service", "REST"),
      DemoEdge("e3", "api-gateway", "notification-service", "REST"),
      DemoEdge("e4", "user-service", "redis-cache", "cache"),
      DemoEdge("e5", "user-service", "postgres-users", "db"),
      DemoEdge("e6", "order-service", "postgres-orders", "db"),
      DemoEdge("e7", "order-service", "kafka-cluster", "pub/sub"),
      DemoEdge("e8", "kafka-cluster", "notification-service", "pub/sub"),
      DemoEdge("e9", "notification-service", "mongodb-notifications", "db")>>

\* genId(): Math.random().toString(36).slice(2, 9), some 7-character token; the same
\* token may come back
GEN_IDS == {"k3x9f2a", "q7m1zc4"}

\* the names typed into the add-node dialog, with name.trim() and
\* name.trim().toLowerCase().replace(/\s+/g, '-')
ADD_NAMES == {"New Svc", "  "}
Trim(name) == CASE name = "New Svc" -> "New Svc" [] name = " cache " -> "cache" [] name = "  " -> ""
Slug(name) == CASE name = "New Svc" -> "new-svc" [] name = " cache " -> "cache" [] name = "  " -> ""

\* { kind, id }
Selection(kind, id) == [kind |-> kind, id |-> id]

\* { ...item, ...patch }: every key of the patch overwrites, a key set to undefined too
Spread(item, patch) == [k \in DOMAIN item |-> IF k \in DOMAIN patch THEN patch[k] ELSE item[k]]

\* addNode(name, type) with genId() = tok
addNode(name, type, tok) ==
    /\ nodes' = Append(nodes, GraphNode(Slug(name) \o "-" \o tok, Trim(name), type,
                                        undefined, 300, 300, undefined, undefined))
    /\ UNCHANGED <<edges, selected>>

\* removeNode(nodeId) with the filter of the edges dropped from one side only
removeNode_sourceOnly(nodeId) ==
    /\ nodes' = SelectSeq(nodes, LAMBDA n : n.id # nodeId)
    /\ edges' = SelectSeq(edges, LAMBDA e : e.source # nodeId)
    /\ selected' = IF selected # <<>> /\ selected[1].id = nodeId THEN <<>> ELSE selected

\* removeNode(nodeId) without its setSelected: the selection stays as it is
removeNode_keepSelection(nodeId) ==
    /\ nodes' = SelectSeq(nodes, LAMBDA n : n.id # nodeId)
    /\ edges' = SelectSeq(edges, LAMBDA e : e.source # nodeId /\ e.target # nodeId)
    /\ UNCHANGED selected

\* removeNode(nodeId)
removeNode(nodeId) ==
    /\ nodes' = SelectSeq(nodes, LAMBDA n : n.id # nodeId)
    /\ edges' = SelectSeq(edges, LAMBDA e : e.source # nodeId /\ e.target # nodeId)
    /\ selected' = IF selected # <<>> /\ selected[1].id = nodeId THEN <<>> ELSE selected

\* updateNode(nodeId, patch)
updateNode(nodeId, patch) ==
    /\ nodes' = [i \in DOMAIN nodes |->
                    IF nodes[i].id = nodeId THEN Spread(nodes[i], patch) ELSE nodes[i]]
    /\ UNCHANGED <<edges, selected>>

\* addEdge(source, target, type) refusing only an edge of the same direction
addEdge_directional(source, target, type, tok) ==
    /\ edges' = IF \E i \in DOMAIN edges :
                       edges[i].source = source /\ edges[i].target = target
                THEN edges
                ELSE Append(edges, GraphEdge(tok, source, target, type, Some(""),
                                             undefined, undefined))
    /\ UNCHANGED <<nodes, selected>>

\* addEdge(source, target, type) with genId() = tok; type is optional
addEdge(source, target, type, tok) ==
    /\ edges' = IF \E i \in DOMAIN edges :
                       \/ edges[i].source = source /\ edges[i].target = target
                       \/ edges[i].source = target /\ edges[i].target = source
                THEN edges
                ELSE Append(edges, GraphEdge(tok, source, target, type, Some(""),
                                             undefined, undefined))
    /\ UNCHANGED <<nodes, selected>>

\* removeEdge(edgeId)
removeEdge(edgeId) ==
    /\ edges' = SelectSeq(edges, LAMBDA e : e.id # edgeId)
    /\ selected' = IF selected # <<>> /\ selected[1].id = edgeId THEN <<>> ELSE selected
    /\ UNCHANGED nodes

\* updateEdge(edgeId, patch)
updateEdge(edgeId, patch) ==
    /\ edges' = [i \in DOMAIN edges |->
                    IF edges[i].id = edgeId THEN Spread(edges[i], patch) ELSE edges[i]]
    /\ UNCHANGED <<nodes, selected>>

\* updateNode(id, patch) of the React Flow hook (lines 225-239), on the canonical fields:
\* name and type when the patch defines them; namespace, width and height when the
\* patch has the key, an empty namespace cleared; a position in the patch is not applied
updateNodeRF(id, patch) ==
    /\ nodes' = [i \in DOMAIN nodes |->
                    IF nodes[i].id # id THEN nodes[i]
                    ELSE [nodes[i] EXCEPT
                            !.name = IF "name" \in DOMAIN patch THEN patch.name ELSE @,
                            !.type = IF "type" \in DOMAIN patch THEN patch.type ELSE @,
                            !.namespace = IF "namespace" \in DOMAIN patch
                                          THEN (IF patch.namespace = Some("") THEN undefined
                                                ELSE patch.namespace)
                                          ELSE @,
                            !.width = IF "width" \in DOMAIN patch THEN patch.width ELSE @,
                            !.height = IF "height" \in DOMAIN patch THEN patch.height ELSE @]]
    /\ UNCHANGED <<edges, selected>>

\* updateEdge(id, patch) of the React Flow hook (lines 245-255): type and label when the
\* patch has the key
updateEdgeRF(id, patch) ==
    /\ edges' = [i \in DOMAIN edges |->
                    IF edges[i].id # id THEN edges[i]
                    ELSE [edges[i] EXCEPT
                            !.type = IF "type" \in DOMAIN patch THEN patch.type ELSE @,
                            !.label = IF "label" \in DOMAIN patch THEN patch.label ELSE @]]
    /\ UNCHANGED <<nodes, selected>>

\* deleteSelected()
deleteSelected ==
    IF selected = <<>> THEN UNCHANGED <<nodes, edges, selected>>
    ELSE IF selected[1].kind = "node" THEN removeNode(selected[1].id)
    ELSE removeEdge(selected[1].id)

\* setSelected(sel)
setSelected(sel) == selected' = sel /\ UNCHANGED <<nodes, edges>>

\* onNodesChange(changes) of the React Flow hook (lines 152-172) for a list of 'remove'
\* changes of service nodes: the edges are filtered here, the nodes by applyNodeChanges,
\* which drops the removed nodes; a node carries its own selected flag there, so the
\* selection goes with the node
onNodesChange(removedIds) ==
    /\ edges' = IF removedIds # {}
                THEN SelectSeq(edges, LAMBDA e : e.source \notin removedIds
                                              /\ e.target \notin removedIds)
                ELSE edges
    /\ nodes' = SelectSeq(nodes, LAMBDA n : n.id \notin removedIds)
    /\ selected' = IF selected # <<>> /\ selected[1].kind = "node"
                       /\ selected[1].id \in removedIds
                    THEN <<>> ELSE selected

-----------------------------------------------------------------------------
(* SpecGraph: the operations of the hook, called in any order on the demo graph *)

MaxOps == 3

\* the arguments the operations are called with
GraphNodeIds == {"api-gateway", "user-service", "ghost"}
GraphEdgeIds == {"e1", "e4", "ghost"}
ConnectIds == {"api-gateway", "redis-cache", "user-service"}

\* patches of the sidebar (rename, namespace, width, reset size) and of a drag (x, y)
NodePatches ==
    {[name |-> ""], [name |-> "renamed"], [namespace |-> Some("ns")],
     [width |-> Some(120)], [width |-> undefined, height |-> undefined],
     [x |-> 300, y |-> 300]}

\* patches of the sidebar (type, label) and of a control-point drag
EdgePatches ==
    {[type |-> Some("gRPC")], [type |-> undefined], [label |-> Some("calls")],
     [controlOffsetX |-> Some(10), controlOffsetY |-> Some(-5)]}

Selections ==
    {<<>>, Some(Selection("node", "api-gateway")), Some(Selection("node", "user-service")),
     Some(Selection("edge", "e1"))}

\* what an operation of the hook leaves alone
OneOp ==
    /\ ops < MaxOps
    /\ ops' = ops + 1
    /\ UNCHANGED <<importVars, layoutVars, exportVars, canvasVars, mode, connectFrom, showAddNode, showImport,
                   modalError>>

InitGraph ==
    /\ nodes = DEMO_NODES /\ edges = DEMO_EDGES /\ selected = <<>>
    /\ mode = "select" /\ connectFrom = <<>> /\ showAddNode = FALSE /\ showImport = FALSE
    /\ modalError = <<>> /\ ops = 0
    /\ json = SyntaxError /\ call = "idle" /\ errors = NoErrors /\ result = NoResult
    /\ lnodes = <<>> /\ ledges = <<>> /\ lout = <<>> /\ lpc = "idle" /\ lbfs = NoBfs
    /\ mermaid = <<>>
    /\ CanvasAtRest

CallAddNode == \E tok \in GEN_IDS : OneOp /\ addNode("New Svc", "redis", tok)
CallRemoveNode(nodeId) == OneOp /\ removeNode(nodeId)
CallOnNodesChange(removedIds) == OneOp /\ onNodesChange(removedIds)
CallUpdateNode ==
    \E nodeId \in GraphNodeIds, patch \in NodePatches : OneOp /\ updateNode(nodeId, patch)
CallUpdateNodeRF ==
    \E nodeId \in GraphNodeIds, patch \in NodePatches : OneOp /\ updateNodeRF(nodeId, patch)
CallAddEdge ==
    \E source \in ConnectIds \ {"user-service"}, target \in ConnectIds, tok \in GEN_IDS :
        OneOp /\ addEdge(source, target, undefined, tok)
CallRemoveEdge == \E edgeId \in GraphEdgeIds : OneOp /\ removeEdge(edgeId)
\* the edges the sidebar patches: e1, and an id that is on no edge
PatchedEdgeIds == {"e1", "ghost"}
CallUpdateEdge ==
    \E edgeId \in PatchedEdgeIds, patch \in EdgePatches : OneOp /\ updateEdge(edgeId, patch)
CallUpdateEdgeRF ==
    \E edgeId \in PatchedEdgeIds, patch \in EdgePatches : OneOp /\ updateEdgeRF(edgeId, patch)
CallSetSelected == \E sel \in Selections : OneOp /\ setSelected(sel)
CallDeleteSelected == OneOp /\ deleteSelected

NextGraph ==
    \/ CallAddNode
    \/ \E nodeId \in GraphNodeIds : CallRemoveNode(nodeId)
    \/ \E removedIds \in SUBSET (GraphNodeIds \ {"ghost"}) : CallOnNodesChange(removedIds)
    \/ CallUpdateNode
    \/ CallUpdateNodeRF
    \/ CallAddEdge
    \/ CallRemoveEdge
    \/ CallUpdateEdge
    \/ CallUpdateEdgeRF
    \/ CallSetSelected
    \/ CallDeleteSelected

SpecGraph == InitGraph /\ [][NextGraph]_vars

-----------------------------------------------------------------------------
(* Spec: the editor, src/src/App.tsx lines 28-284, under the user's events *)

MaxEdits == 2

\* the nodes and edges the user clicks on, when they are on the canvas
ClickNodeIds == {"api-gateway", "redis-cache", "a"}
ClickEdgeIds == {"e1", "e-import-0"}

\* the two-service example of the service schema, and a document with three violations
TwoServiceDoc ==
    JObj([services |-> JArr(<<WideEntry("a", "plain"), WideEntry("b", "to-a")>>)])
ThreeViolationDoc ==
    JObj([services |-> JArr(<<WideEntry("a", "plain"), WideEntry("a", "bogus"),
                              WideEntry("b", "no-target")>>)])

\* the texts pasted into the import dialog
ModalTexts ==
    {SyntaxError, TwoServiceDoc, ThreeViolationDoc,
     FlatDoc(<<FlatNodeA, FlatNodeB>>, <<FlatEdgeAB>>),
     FlatDoc(<<FlatNodeA, JNull>>, <<FlatEdgeAB>>),
     FlatDoc(<<FlatNodeA, FlatNodeB>>, <<FlatEdgeAB, FlatEdgeBad>>)}
ImportFormats == {"service-schema", "schema-export"}

\* selectedNode / selectedEdge: the selection resolved against the graph
HasNode(nodeId) == \E i \in DOMAIN nodes : nodes[i].id = nodeId
HasEdge(edgeId) == \E i \in DOMAIN edges : edges[i].id = edgeId
selectedNode == selected # <<>> /\ selected[1].kind = "node" /\ HasNode(selected[1].id)
selectedEdge == selected # <<>> /\ selected[1].kind = "edge" /\ HasEdge(selected[1].id)

\* the canvas is covered by an open dialog's overlay
NoModal == ~showAddNode /\ ~showImport

\* what a handler of the editor leaves alone
Rest == UNCHANGED <<importVars, layoutVars, exportVars, canvasVars, ops>>

\* the same for a handler that edits the graph: the edits of a session are counted
Edit == ops < MaxEdits /\ ops' = ops + 1 /\ UNCHANGED <<importVars, layoutVars, exportVars, canvasVars>>

Init ==
    /\ nodes = DEMO_NODES /\ edges = DEMO_EDGES /\ selected = <<>>
    /\ mode = "select" /\ connectFrom = <<>> /\ showAddNode = FALSE /\ showImport = FALSE
    /\ modalError = <<>> /\ ops = 0
    /\ json = SyntaxError /\ call = "idle" /\ errors = NoErrors /\ result = NoResult
    /\ lnodes = <<>> /\ ledges = <<>> /\ lout = <<>> /\ lpc = "idle" /\ lbfs = NoBfs
    /\ mermaid = <<>>
    /\ CanvasAtRest

\* resetMode(), bound to the Escape key
resetMode ==
    /\ mode' = "select" /\ connectFrom' = <<>> /\ selected' = <<>>
    /\ UNCHANGED <<nodes, edges, showAddNode, showImport, modalError>> /\ Rest

\* the Delete / Backspace key, and the Delete buttons of the toolbar and the sidebar
KeyDelete ==
    /\ selected # <<>>
    /\ deleteSelected
    /\ UNCHANGED <<mode, connectFrom, showAddNode, showImport, modalError>> /\ Edit

\* onNodeMouseDown(e, nodeId): the drag it starts moves nothing before the mouse moves
onNodeMouseDown(nodeId) ==
    /\ NoModal /\ HasNode(nodeId)
    /\ mode # "connect"
    /\ setSelected(Some(Selection("node", nodeId)))
    /\ UNCHANGED <<mode, connectFrom, showAddNode, showImport, modalError>> /\ Rest

\* onNodeClick(e, nodeId) without the test `connectFrom !== nodeId`
onNodeClick_noSelfTest(nodeId) ==
    /\ NoModal /\ HasNode(nodeId)
    /\ IF mode # "connect"
       THEN setSelected(Some(Selection("node", nodeId))) /\ UNCHANGED connectFrom
       ELSE IF connectFrom = <<>>
       THEN connectFrom' = Some(nodeId) /\ UNCHANGED <<nodes, edges, selected>>
       ELSE /\ \E tok \in GEN_IDS : addEdge(connectFrom[1], nodeId, undefined, tok)
            /\ connectFrom' = <<>>
    /\ IF mode = "connect" /\ connectFrom # <<>> THEN Edit ELSE Rest
    /\ UNCHANGED <<mode, showAddNode, showImport, modalError>>

\* onNodeClick(e, nodeId)
onNodeClick(nodeId) ==
    /\ NoModal /\ HasNode(nodeId)
    /\ IF mode # "connect"
       THEN setSelected(Some(Selection("node", nodeId))) /\ UNCHANGED connectFrom
       ELSE IF connectFrom = <<>>
       THEN connectFrom' = Some(nodeId) /\ UNCHANGED <<nodes, edges, selected>>
       ELSE /\ IF connectFrom[1] # nodeId
               THEN \E tok \in GEN_IDS : addEdge(connectFrom[1], nodeId, undefined, tok)
               ELSE UNCHANGED <<nodes, edges, selected>>
            /\ connectFrom' = <<>>
    /\ IF mode = "connect" /\ connectFrom # <<>> /\ connectFrom[1] # nodeId THEN Edit ELSE Rest
    /\ UNCHANGED <<mode, showAddNode, showImport, modalError>>

\* onEdgeClick(e, edgeId)
onEdgeClick(edgeId) ==
    /\ NoModal /\ HasEdge(edgeId)
    /\ setSelected(Some(Selection("edge", edgeId)))
    /\ UNCHANGED <<mode, connectFrom, showAddNode, showImport, modalError>> /\ Rest

\* onSvgClick(), with no pan and no drag under way
onSvgClick ==
    /\ NoModal
    /\ setSelected(<<>>)
    /\ UNCHANGED <<mode, connectFrom, showAddNode, showImport, modalError>> /\ Rest

\* handleModeChange(newMode) without setConnectFrom(null)
handleModeChange_keepPending(newMode) ==
    /\ NoModal
    /\ mode' = newMode
    /\ selected' = IF newMode = "connect" THEN <<>> ELSE selected
    /\ UNCHANGED <<nodes, edges, connectFrom, showAddNode, showImport, modalError>> /\ Rest

\* handleModeChange(newMode)
handleModeChange(newMode) ==
    /\ NoModal
    /\ mode' = newMode /\ connectFrom' = <<>>
    /\ selected' = IF newMode = "connect" THEN <<>> ELSE selected
    /\ UNCHANGED <<nodes, edges, showAddNode, showImport, modalError>> /\ Rest

\* the sidebar's inputs for the selected node: onUpdateNode(selectedNode.id, patch)
SidebarUpdateNode ==
    /\ NoModal /\ selectedNode
    /\ \E patch \in {[name |-> ""], [width |-> Some(120)]} :
           updateNode(selected[1].id, patch)
    /\ UNCHANGED <<mode, connectFrom, showAddNode, showImport, modalError>> /\ Edit

\* the sidebar's inputs for the selected edge: onUpdateEdge(selectedEdge.id, patch)
SidebarUpdateEdge ==
    /\ NoModal /\ selectedEdge
    /\ updateEdge(selected[1].id, [label |-> Some("calls")])
    /\ UNCHANGED <<mode, connectFrom, showAddNode, showImport, modalError>> /\ Edit

\* the toolbar's buttons: setShowAddNode(true), setShowImport(true)
OpenModal ==
    /\ NoModal
    /\ \/ showAddNode' = TRUE /\ UNCHANGED showImport
       \/ showImport' = TRUE /\ UNCHANGED showAddNode
    /\ UNCHANGED <<nodes, edges, selected, mode, connectFrom, modalError>> /\ Rest

\* onClose of either dialog; the import dialog's error state goes with the dialog
CloseModal ==
    /\ ~NoModal
    /\ showAddNode' = FALSE /\ showImport' = FALSE /\ modalError' = <<>>
    /\ UNCHANGED <<nodes, edges, selected, mode, connectFrom>> /\ Rest

\* AddNodeModal.handleAdd() and App.handleAddNode(name, type, namespace)
handleAddNode(name, type) ==
    /\ showAddNode
    /\ Trim(name) # ""
    /\ \E tok \in GEN_IDS : addNode(name, type, tok)
    /\ showAddNode' = FALSE
    /\ UNCHANGED <<mode, connectFrom, showImport, modalError>> /\ Edit

\* the importer the dialog's format selects, applied to the pasted text
RunImport(format, text) ==
    IF format = "service-schema" THEN importServiceSchema(text) ELSE importSchemaExport(text)

\* RunImport over the texts of the dialog, computed once
ImportResults == [format \in ImportFormats, text \in ModalTexts |-> RunImport(format, text)]

\* ImportModal.handleImport() with App.handleImport as onImport, skipping a failed
\* result's throw: whatever the importer built is handed to onImport
handleImport_noCatch(format, text) ==
    /\ showImport
    /\ LET r == ImportResults[format, text]
       IN  /\ nodes' = IF r.ok THEN r.nodes ELSE <<>>
           /\ edges' = IF r.ok THEN r.edges ELSE <<>>
           /\ selected' = <<>> /\ showImport' = FALSE /\ modalError' = <<>>
           /\ Edit
    /\ UNCHANGED <<mode, connectFrom, showAddNode>>

\* ImportModal.handleImport() with App.handleImport as onImport
handleImport(format, text) ==
    /\ showImport
    /\ LET r == ImportResults[format, text]
       IN  IF r.ok
           THEN /\ nodes' = r.nodes /\ edges' = r.edges /\ selected' = <<>>
                /\ showImport' = FALSE /\ modalError' = <<>>
                /\ Edit
           ELSE /\ modalError' = Some(r.message)
                /\ UNCHANGED <<nodes, edges, selected, showImport>>
                /\ Rest
    /\ UNCHANGED <<mode, connectFrom, showAddNode>>

Next ==
    \/ resetMode
    \/ KeyDelete
    \/ \E nodeId \in ClickNodeIds : onNodeMouseDown(nodeId) \/ onNodeClick(nodeId)
    \/ \E edgeId \in ClickEdgeIds : onEdgeClick(edgeId)
    \/ onSvgClick
    \/ \E newMode \in {"select", "connect"} : handleModeChange(newMode)
    \/ SidebarUpdateNode
    \/ SidebarUpdateEdge
    \/ OpenModal
    \/ CloseModal
    \/ \E name \in ADD_NAMES : handleAddNode(name, "redis")
    \/ \E format \in ImportFormats, text \in ModalTexts : handleImport(format, text)

Spec == Init /\ [][Next]_vars

-----------------------------------------------------------------------------
(* SpecExport: toMermaid applied to a graph *)

MaxExportNodes == 3
MaxExportEdges == 2

\* the nodes of the exported graphs: two in the namespace infra, one in backend, one
\* without namespace, one whose namespace is the empty string
ExportNodes ==
    {GraphNode("a", "A", "redis", Some("infra"), 0, 0, undefined, undefined),
     GraphNode("b", "B", "nodejs", Some("backend"), 10, 0, undefined, undefined),
     GraphNode("c", "C", "kafka", Some("infra"), 20, 0, undefined, undefined),
     GraphNode("d", "D", "external", undefined, 30, 0, undefined, undefined),
     GraphNode("e", "E", "mongodb", Some(""), 40, 0, undefined, undefined)}

\* the edges: with a type, with a label only, with the empty label addEdge gives, and
\* with type and label
ExportEdges ==
    {GraphEdge("e1", "a", "b", Some("REST"), undefined, undefined, undefined),
     GraphEdge("e2", "b", "a", undefined, Some("calls"), undefined, undefined),
     GraphEdge("e3", "a", "d", undefined, Some(""), undefined, undefined),
     GraphEdge("e4", "c", "zz", Some("db"), Some("x"), undefined, undefined)}

InitExport ==
    /\ nodes \in SeqsUpTo(ExportNodes, MaxExportNodes)
    /\ edges \in SeqsUpTo(ExportEdges, MaxExportEdges)
    /\ mermaid = <<>>
    /\ CanvasAtRest
    /\ selected = <<>> /\ mode = "select" /\ connectFrom = <<>> /\ showAddNode = FALSE
    /\ showImport = FALSE /\ modalError = <<>> /\ ops = 0
    /\ json = SyntaxError /\ call = "idle" /\ errors = NoErrors /\ result = NoResult
    /\ lnodes = <<>> /\ ledges = <<>> /\ lout = <<>> /\ lpc = "idle" /\ lbfs = NoBfs

\* the export dialog's mermaid={toMermaid(nodes, edges)}
CallToMermaid ==
    /\ mermaid = <<>>
    /\ mermaid' = toMermaid(nodes, edges)
    /\ UNCHANGED <<importVars, layoutVars, editorVars, canvasVars>>

NextExport == CallToMermaid

SpecExport == InitExport /\ [][NextExport]_vars

-----------------------------------------------------------------------------
(* SpecCanvas: the useCanvas hook, src/src/hooks/useCanvas.ts, under the mouse, the
   wheel and the buttons of the canvas controls *)

MaxCanvasOps == 4

MIN_ZOOM == Frac(1, 10)
MAX_ZOOM == Whole(3)
ZOOM_FACTOR == Frac(6, 5)
FIT_PADDING == 60

\* svg.getBoundingClientRect() of the mounted canvas
SvgRect == [left |-> 0, top |-> 0, width |-> 800, height |-> 600]

\* where the mouse is when an event comes: (clientX, clientY)
ClientPoints == {<<0, 0>>, <<120, 40>>}

\* what a handler of the hook leaves alone; the handlers called in a session are counted
CanvasStep ==
    /\ ops < MaxCanvasOps /\ ops' = ops + 1
    /\ UNCHANGED <<importVars, layoutVars, exportVars, nodes, edges, selected, mode,
                   connectFrom, showAddNode, showImport, modalError>>

\* the transform zoomed to newZoom about the point (px, py)
ZoomAbout(px, py, newZoom) ==
    LET scale == FDiv(newZoom, canvas.zoom)
    IN  [panX |-> FSub(Whole(px), FMul(scale, FSub(Whole(px), canvas.panX))),
         panY |-> FSub(Whole(py), FMul(scale, FSub(Whole(py), canvas.panY))),
         zoom |-> newZoom]

\* App.onSvgMouseDown: onPanStart(clientX, clientY) for a left press on the empty canvas
onPanStart(clientX, clientY) ==
    /\ mode # "connect"
    /\ IF isPanLocked THEN UNCHANGED panDragRef
       ELSE panDragRef' = <<[startClientX |-> clientX, startClientY |-> clientY,
                             startPanX |-> canvas.panX, startPanY |-> canvas.panY]>>
    /\ UNCHANGED <<canvas, isPanLocked>> /\ CanvasStep

\* the window's mousemove listener
onMove(clientX, clientY) ==
    /\ IF panDragRef = <<>> THEN UNCHANGED canvas
       ELSE LET pd == panDragRef[1]
            IN  canvas' = [canvas EXCEPT
                    !.panX = FAdd(pd.startPanX, Whole(clientX - pd.startClientX)),
                    !.panY = FAdd(pd.startPanY, Whole(clientY - pd.startClientY))]
    /\ UNCHANGED <<isPanLocked, panDragRef>> /\ CanvasStep

\* the window's mouseup listener
onUp ==
    /\ panDragRef' = <<>>
    /\ UNCHANGED <<canvas, isPanLocked>> /\ CanvasStep

\* the svg's wheel listener; up is deltaY < 0
onWheel(clientX, clientY, up) ==
    /\ IF isPanLocked THEN UNCHANGED canvas
       ELSE LET direction == IF up THEN ZOOM_FACTOR ELSE FDiv(Whole(1), ZOOM_FACTOR)
                newZoom == FMin(MAX_ZOOM, FMax(MIN_ZOOM, FMul(canvas.zoom, direction)))
            IN  canvas' = ZoomAbout(clientX - SvgRect.left, clientY - SvgRect.top, newZoom)
    /\ UNCHANGED <<isPanLocked, panDragRef>> /\ CanvasStep

\* zoomIn(), the + button
zoomIn ==
    /\ canvas' = ZoomAbout(SvgRect.width \div 2, SvgRect.height \div 2,
                           FMin(MAX_ZOOM, FMul(canvas.zoom, ZOOM_FACTOR)))
    /\ UNCHANGED <<isPanLocked, panDragRef>> /\ CanvasStep

\* zoomOut(), the - button
zoomOut ==
    /\ canvas' = ZoomAbout(SvgRect.width \div 2, SvgRect.height \div 2,
                           FMax(MIN_ZOOM, FDiv(canvas.zoom, ZOOM_FACTOR)))
    /\ UNCHANGED <<isPanLocked, panDragRef>> /\ CanvasStep

\* the least and the greatest of a non-empty set of integers
Least(S) == CHOOSE m \in S : \A v \in S : m <= v
Greatest(S) == CHOOSE m \in S : \A v \in S : v <= m

\* fitView(nodes), the fit-view button
fitView ==
    /\ IF nodes = <<>>
       THEN canvas' = [panX |-> Whole(0), panY |-> Whole(0), zoom |-> Whole(1)]
       ELSE LET minX == Least({nodes[i].x : i \in DOMAIN nodes})
                minY == Least({nodes[i].y : i \in DOMAIN nodes})
                maxX == Greatest({nodes[i].x + NODE_W : i \in DOMAIN nodes})
                maxY == Greatest({nodes[i].y + NODE_H : i \in DOMAIN nodes})
                contentW == maxX - minX + FIT_PADDING * 2
                contentH == maxY - minY + FIT_PADDING * 2
                zoom == FMin(FMin(Frac(SvgRect.width, contentW), Frac(SvgRect.height, contentH)),
                             MAX_ZOOM)
            IN  canvas' =
                  [panX |-> FSub(FDiv(FSub(Whole(SvgRect.width), FMul(Whole(contentW), zoom)),
                                      Whole(2)),
                                 FMul(Whole(minX - FIT_PADDING), zoom)),
                   panY |-> FSub(FDiv(FSub(Whole(SvgRect.height), FMul(Whole(contentH), zoom)),
                                      Whole(2)),
                                 FMul(Whole(minY - FIT_PADDING), zoom)),
                   zoom |-> zoom]
    /\ UNCHANGED <<isPanLocked, panDragRef>> /\ CanvasStep

\* toggleLock(), the lock button
toggleLock ==
    /\ isPanLocked' = ~isPanLocked
    /\ UNCHANGED <<canvas, panDragRef>> /\ CanvasStep

InitCanvas ==
    /\ nodes \in {<<>>, DEMO_NODES} /\ edges = <<>> /\ selected = <<>>
    /\ mode = "select" /\ connectFrom = <<>> /\ showAddNode = FALSE /\ showImport = FALSE
    /\ modalError = <<>> /\ ops = 0
    /\ CanvasAtRest
    /\ json = SyntaxError /\ call = "idle" /\ errors = NoErrors /\ result = NoResult
    /\ lnodes = <<>> /\ ledges = <<>> /\ lout = <<>> /\ lpc = "idle" /\ lbfs = NoBfs
    /\ mermaid = <<>>

NextCanvas ==
    \/ \E p \in ClientPoints : onPanStart(p[1], p[2])
    \/ \E p \in ClientPoints : onMove(p[1], p[2])
    \/ onUp
    \/ \E p \in ClientPoints, up \in BOOLEAN : onWheel(p[1], p[2], up)
    \/ zoomIn
    \/ zoomOut
    \/ fitView
    \/ toggleLock

SpecCanvas == InitCanvas /\ [][NextCanvas]_vars

-----------------------------------------------------------------------------
(* The service schema, rule by rule, as the specification words it *)

\* a JSON object: neither null, nor a scalar, nor an array
JsonObject(v) == v.t = "obj"
\* the key k is present in the object v
Present(v, k) == k \in DOMAIN v.o
\* the key k of the object v holds a non-empty string
NonEmptyStringAt(v, k) == Present(v, k) /\ v.o[k].t = "str" /\ v.o[k].s # ""
\* the key k of the object v holds a string that is one of the keys
KeyAt(v, k, keys) == Present(v, k) /\ v.o[k].t = "str" /\ v.o[k].s \in Range(keys)

RECURSIVE Concat(_)
Concat(seqs) == IF seqs = <<>> THEN <<>> ELSE seqs[1] \o Concat(Tail(seqs))

\* the paths of the rules one integration entry violates
IntegrationViolations(integ, q) ==
    IF ~JsonObject(integ) THEN <<q>>
    ELSE (IF NonEmptyStringAt(integ, "target") THEN <<>> ELSE <<q \o "/target">>)
         \o (IF Present(integ, "type") /\ ~KeyAt(integ, "type", EDGE_TYPE_KEYS)
             THEN <<q \o "/type">> ELSE <<>>)
         \o (IF Present(integ, "label") /\ integ.o.label.t # "str"
             THEN <<q \o "/label">> ELSE <<>>)

\* the entry i of the services repeats the id of an earlier entry
RepeatsId(services, i) ==
    \E j \in 1..(i - 1) :
        /\ JsonObject(services[j]) /\ NonEmptyStringAt(services[j], "id")
        /\ services[j].o.id = services[i].o.id

\* the paths of the rules the service entry i violates (entries are numbered from 0)
ServiceViolations(services, i) ==
    LET svc == services[i]
        p == "/services[" \o ToString(i - 1) \o "]"
    IN  IF ~JsonObject(svc) THEN <<p>>
        ELSE (IF NonEmptyStringAt(svc, "id") /\ ~RepeatsId(services, i)
              THEN <<>> ELSE <<p \o "/id">>)
             \o (IF NonEmptyStringAt(svc, "name") THEN <<>> ELSE <<p \o "/name">>)
             \o (IF KeyAt(svc, "type", NODE_TYPE_KEYS) THEN <<>> ELSE <<p \o "/type">>)
             \o (IF Present(svc, "namespace") /\ svc.o.namespace.t # "str"
                 THEN <<p \o "/namespace">> ELSE <<>>)
             \o (IF ~Present(svc, "integrations") THEN <<>>
                 ELSE IF svc.o.integrations.t # "arr" THEN <<p \o "/integrations">>
                 ELSE Concat([j \in DOMAIN svc.o.integrations.a |->
                                 IntegrationViolations(svc.o.integrations.a[j],
                                     p \o "/integrations[" \o ToString(j - 1) \o "]")]))

\* the root is an object that holds a services array
HasServices(doc) == JsonObject(doc) /\ Present(doc, "services") /\ doc.o.services.t = "arr"

\* the paths of all violated rules of a document with a services array
Violations(doc) ==
    Concat([i \in DOMAIN doc.o.services.a |-> ServiceViolations(doc.o.services.a, i)])

\* how often x occurs in the sequence s
Count(s, x) == Cardinality({i \in DOMAIN s : s[i] = x})
SameBag(s, t) == \A x \in Range(s) \cup Range(t) : Count(s, x) = Count(t, x)

\* the paths of the errors returned
ErrorPaths == [i \in DOMAIN errors |-> errors[i].path]

\* the validator has been applied to the text
Validated == call = "validateServiceSchema"

\* C5: the validator does not stop at the first violation: for a root object with a
\* services array it returns one error for each violated rule of each service and
\* integration entry, at the path of that rule; the document with one duplicate id, one
\* invalid type and one integration without target yields exactly three errors.
C5_OneErrorPerViolation ==
    (Validated /\ HasServices(json)) =>
        /\ SameBag(ErrorPaths, Violations(json))
        /\ json.o.services.a = ThreeViolationDoc.o.services.a => Len(errors) = 3

\* C5, where it holds: every entry that is an array set aside, one error per violation
C5_ExceptArrayEntries ==
    (Validated /\ HasServices(json)
       /\ \A i \in DOMAIN json.o.services.a :
             LET svc == json.o.services.a[i]
             IN  /\ svc.t # "arr"
                 /\ (JsonObject(svc) /\ Present(svc, "integrations")
                       /\ svc.o.integrations.t = "arr")
                    => \A j \in DOMAIN svc.o.integrations.a : svc.o.integrations.a[j].t # "arr")
    => SameBag(ErrorPaths, Violations(json))

\* the value conforms to the service schema
Conforms(doc) ==
    /\ HasServices(doc)
    /\ \A i \in DOMAIN doc.o.services.a :
          LET svc == doc.o.services.a[i]
          IN  /\ JsonObject(svc)
              /\ NonEmptyStringAt(svc, "id")
              /\ \A j \in DOMAIN doc.o.services.a :
                    (j # i /\ JsonObject(doc.o.services.a[j])
                       /\ Present(doc.o.services.a[j], "id"))
                    => doc.o.services.a[j].o.id # svc.o.id
              /\ NonEmptyStringAt(svc, "name")
              /\ KeyAt(svc, "type", NODE_TYPE_KEYS)
              /\ Present(svc, "namespace") => svc.o.namespace.t = "str"
              /\ Present(svc, "integrations") =>
                    /\ svc.o.integrations.t = "arr"
                    /\ \A k \in DOMAIN svc.o.integrations.a :
                          LET integ == svc.o.integrations.a[k]
                          IN  /\ JsonObject(integ)
                              /\ NonEmptyStringAt(integ, "target")
                              /\ Present(integ, "type") => KeyAt(integ, "type", EDGE_TYPE_KEYS)
                              /\ Present(integ, "label") => integ.o.label.t = "str"

\* C6: validateServiceSchema returns a list of errors for every parsed value (it never
\* throws), and the list is empty exactly when the value conforms to the service schema.
C6_EmptyIffConforms ==
    Validated =>
        /\ \A i \in DOMAIN errors : DOMAIN errors[i] = {"path", "message"}
        /\ (errors = <<>>) <=> Conforms(json)

\* a conforming document of two services and an integration between them was validated
C6_Witness ==
    /\ Validated /\ errors = <<>> /\ Conforms(json)
    /\ Len(json.o.services.a) = 2
    /\ \E i \in DOMAIN json.o.services.a : Present(json.o.services.a[i], "integrations")

\* C9: the validator hard-stops on a bad container: a parsed value that is no JSON
\* object (null, number, string, boolean, array) gets exactly one error, at path "/";
\* an object whose services is absent or no array gets exactly one error, at "/services".
C9_HardStop ==
    Validated =>
        /\ ~JsonObject(json) => ErrorPaths = <<"/">>
        /\ (JsonObject(json) /\ ~HasServices(json)) => ErrorPaths = <<"/services">>

\* C9, where it holds: the same with arrays counted among the objects
C9_ExceptArrayRoot ==
    (Validated /\ json.t # "arr") =>
        /\ ~JsonObject(json) => ErrorPaths = <<"/">>
        /\ (JsonObject(json) /\ ~HasServices(json)) => ErrorPaths = <<"/services">>

\* the errors that report a duplicate id
DuplicateErrors ==
    SelectSeq(errors, LAMBDA e :
        \E i \in DOMAIN json.o.services.a :
            /\ JsonObject(json.o.services.a[i]) /\ NonEmptyStringAt(json.o.services.a[i], "id")
            /\ e.message = "Duplicate service id \"" \o json.o.services.a[i].o.id.s \o "\".")

\* the entries whose non-empty string id is id
Occurrences(services, id) ==
    {i \in DOMAIN services :
        JsonObject(services[i]) /\ NonEmptyStringAt(services[i], "id")
        /\ services[i].o.id.s = id}

\* C10: every duplicate id is reported: an id that occurs k >= 2 times among the service
\* entries gets exactly k-1 duplicate-id errors, one at the path of each occurrence
\* after the first.
C10_EveryDuplicateReported ==
    (Validated /\ HasServices(json)) =>
        LET services == json.o.services.a
        IN  \A i \in DOMAIN services :
               (JsonObject(services[i]) /\ NonEmptyStringAt(services[i], "id")) =>
                  LET occ == Occurrences(services, services[i].o.id.s)
                      first == CHOOSE f \in occ : \A o \in occ : f <= o
                      dup == SelectSeq(DuplicateErrors, LAMBDA e :
                                e.message = "Duplicate service id \""
                                            \o services[i].o.id.s \o "\".")
                  IN  /\ Len(dup) = Cardinality(occ) - 1
                      /\ {dup[k].path : k \in DOMAIN dup}
                           = {"/services[" \o ToString(o - 1) \o "]/id" : o \in occ \ {first}}

\* an id that occurs three times was validated and reported twice
C10_Witness ==
    /\ Validated /\ HasServices(json)
    /\ \E id \in {"a", "b", "c"} : Cardinality(Occurrences(json.o.services.a, id)) = 3
    /\ Len(DuplicateErrors) = 2

-----------------------------------------------------------------------------
(* Claims about the importers *)

\* an importer has been applied to the text and has returned
Imported == call \in {"importServiceSchema", "importSchemaExport"} /\ result.ok

\* C2: every edge a successful import returns has a source and a target that are ids of
\* nodes the same import returns; an integration or edge naming an id absent from the
\* payload never ends up as an edge of the imported graph.
C2_NoDanglingEdge ==
    Imported =>
        \A k \in DOMAIN result.edges :
            /\ \E i \in DOMAIN result.nodes : result.nodes[i].id = result.edges[k].source
            /\ \E i \in DOMAIN result.nodes : result.nodes[i].id = result.edges[k].target

\* an optional string of a JSON object, as the optional field of a node or an edge
OptionalString(v, k) == IF Present(v, k) /\ v.o[k].t = "str" THEN <<v.o[k].s>> ELSE <<>>

\* the integration entries of a conforming document in document order, each with the
\* id of its service
IntegrationsOf(services) ==
    Concat([i \in DOMAIN services |->
               IF Present(services[i], "integrations")
               THEN [j \in DOMAIN services[i].o.integrations.a |->
                        [source |-> services[i].o.id.s,
                         integ |-> services[i].o.integrations.a[j]]]
               ELSE <<>>])

\* the column of a laid-out node: how many columns lie to its left
ColumnOf(out, id) ==
    LET n == CHOOSE m \in Range(out) : m.id = id
    IN  Cardinality({m.x : m \in {q \in Range(out) : q.x < n.x}})

\* C8: for a document that passes validation importServiceSchema returns one node per
\* service entry (same id, name, type, namespace) and one edge per integration entry in
\* document order (source the enclosing service, target, type and label of the entry,
\* ids e-import-0, e-import-1, ...); node ids and edge ids are pairwise distinct; the
\* two-service example gives 2 nodes, 1 edge b -> a of type cache, b in column 0 and a
\* in column 1.
C8_OneNodePerServiceOneEdgePerIntegration ==
    (call = "importServiceSchema" /\ json # SyntaxError /\ Conforms(json)) =>
        LET services == json.o.services.a
            integs == IntegrationsOf(services)
        IN  /\ result.ok
            /\ Len(result.nodes) = Len(services)
            /\ \A i \in DOMAIN services :
                  \E k \in DOMAIN result.nodes :
                     /\ result.nodes[k].id = services[i].o.id.s
                     /\ result.nodes[k].name = services[i].o.name.s
                     /\ result.nodes[k].type = services[i].o.type.s
                     /\ result.nodes[k].namespace = OptionalString(services[i], "namespace")
            /\ Len(result.edges) = Len(integs)
            /\ \A k \in DOMAIN integs :
                  /\ result.edges[k].id = "e-import-" \o ToString(k - 1)
                  /\ result.edges[k].source = integs[k].source
                  /\ result.edges[k].target = integs[k].integ.o.target.s
                  /\ result.edges[k].type = OptionalString(integs[k].integ, "type")
                  /\ result.edges[k].label = OptionalString(integs[k].integ, "label")
            /\ \A i, k \in DOMAIN result.nodes :
                  result.nodes[i].id = result.nodes[k].id => i = k
            /\ \A i, k \in DOMAIN result.edges :
                  result.edges[i].id = result.edges[k].id => i = k
            /\ services = TwoServiceDoc.o.services.a =>
                  /\ Len(result.nodes) = 2 /\ Len(result.edges) = 1
                  /\ result.edges[1].source = "b" /\ result.edges[1].target = "a"
                  /\ result.edges[1].type = <<"cache">>
                  /\ ColumnOf(result.nodes, "b") = 0 /\ ColumnOf(result.nodes, "a") = 1

\* a conforming document with integrations in two of its services was imported: the
\* second service's edge continues the numbering of the first
C8_Witness ==
    /\ call = "importServiceSchema" /\ json # SyntaxError /\ Conforms(json) /\ result.ok
    /\ Len(result.edges) = 2
    /\ result.edges[1].source # result.edges[2].source
    /\ result.edges[2].id = "e-import-1"

-----------------------------------------------------------------------------
(* Claims about the layout *)

\* the layout has been computed for a list of nodes whose edges connect nodes of the list
LaidOut ==
    /\ lpc = "done"
    /\ \A k \in DOMAIN ledges :
          /\ \E i \in DOMAIN lnodes : lnodes[i].id = ledges[k].source
          /\ \E i \in DOMAIN lnodes : lnodes[i].id = ledges[k].target

\* the edges that end in the node id
EdgesInto(es, id) == {k \in DOMAIN es : es[k].target = id}

RECURSIVE ReachedIn(_, _, _)
\* the ids reached from the ids S along at most n edges
ReachedIn(es, S, n) ==
    IF n = 0 THEN S
    ELSE ReachedIn(es, S \cup {es[k].target : k \in {j \in DOMAIN es : es[j].source \in S}},
                   n - 1)

\* no node lies on a cycle
Acyclic(ns, es) ==
    \A k \in DOMAIN es : es[k].source \notin ReachedIn(es, {es[k].target}, Len(es))

RECURSIVE LongestPath(_, _)
\* the length of the longest path from a node without incoming edges to the node id,
\* in an acyclic graph
LongestPath(es, id) ==
    IF EdgesInto(es, id) = {} THEN 0
    ELSE LET lens == {LongestPath(es, es[k].source) + 1 : k \in EdgesInto(es, id)}
         IN  CHOOSE m \in lens : \A l \in lens : l <= m

\* C1: for every acyclic input graph, in every order of the node and edge lists,
\* computeLayout places each node in the column whose index is the length of the longest
\* path from a node without incoming edges to it; so for every edge u -> v the column of
\* v is at least the column of u plus 1, and in the diamond A->B->D, A->C->D node D is in
\* column 2.
C1_LongestPathColumns ==
    (LaidOut /\ Acyclic(lnodes, ledges)) =>
        /\ \A i \in DOMAIN lnodes :
              ColumnOf(lout, lnodes[i].id) = LongestPath(ledges, lnodes[i].id)
        /\ \A k \in DOMAIN ledges :
              ColumnOf(lout, ledges[k].target) >= ColumnOf(lout, ledges[k].source) + 1

\* C1, the part that holds: in the diamond, in every order of the lists, D is in column 2
C1_Diamond ==
    (LaidOut /\ {<<ledges[k].source, ledges[k].target>> : k \in DOMAIN ledges}
                  = {<<"A", "B">>, <<"A", "C">>, <<"B", "D">>, <<"C", "D">>}
             /\ Len(lnodes) = 4)
    => ColumnOf(lout, "D") = 2

-----------------------------------------------------------------------------
(* Claims about the graph state and the editor *)

\* the graph after the step is the graph before it without the nodes of ids and without
\* exactly the edges that start or end in one of them
Cascaded(ids) ==
    /\ \A k \in DOMAIN edges' : edges'[k].source \notin ids /\ edges'[k].target \notin ids
    /\ \A i \in DOMAIN nodes' : nodes'[i].id \notin ids
    /\ Len(nodes') = Cardinality({i \in DOMAIN nodes : nodes[i].id \notin ids})
    /\ Len(edges') = Cardinality({k \in DOMAIN edges :
                                     edges[k].source \notin ids /\ edges[k].target \notin ids})
    /\ \A i \in DOMAIN nodes : nodes[i].id \notin ids =>
          Count(nodes', nodes[i]) = Count(nodes, nodes[i])
    /\ \A k \in DOMAIN edges : (edges[k].source \notin ids /\ edges[k].target \notin ids) =>
          Count(edges', edges[k]) = Count(edges, edges[k])

\* C3: deleting a node n (removeNode, or a 'remove' node change) removes n and exactly
\* the edges whose source or target is n: afterwards no edge references n, and every
\* other node and every edge not incident to n is present and unchanged.
C3_RemoveNodeCascades ==
    [][/\ \A nodeId \in GraphNodeIds : CallRemoveNode(nodeId) => Cascaded({nodeId})
       /\ \A removedIds \in SUBSET (GraphNodeIds \ {"ghost"}) :
             CallOnNodesChange(removedIds) => Cascaded(removedIds)]_vars

\* a node with edges on both sides has just been removed: user-service's incoming e1 and
\* its outgoing e4 and e5 are gone with it, the other six demo edges are there
C3_Witness ==
    /\ ops = 1
    /\ Len(nodes) = Len(DEMO_NODES) - 1 /\ \A i \in DOMAIN nodes : nodes[i].id # "user-service"
    /\ Len(edges) = Len(DEMO_EDGES) - 3
    /\ \A k \in DOMAIN edges : edges[k].id \notin {"e1", "e4", "e5"}

\* C4: for every graph the graph state can hold after any sequence of its operations,
\* importSchemaExport(toSchemaExport(nodes, edges)) succeeds and returns the node and
\* edge arrays equal to the originals, in the same order and field for field.
C4_RoundTrip ==
    importSchemaExport(toSchemaExport(nodes, edges)) = Return(nodes, edges)

\* C4, the part that holds: ids, types, namespaces, positions and the edges' ends, types
\* and labels come back, in order, for every graph whose nodes all have a name
C4_ExportedFieldsRoundTrip ==
    (\A i \in DOMAIN nodes : nodes[i].name # "") =>
        LET back == importSchemaExport(toSchemaExport(nodes, edges))
        IN  /\ back.ok
            /\ back.nodes = [i \in DOMAIN nodes |->
                                [nodes[i] EXCEPT !.width = <<>>, !.height = <<>>]]
            /\ back.edges = [k \in DOMAIN edges |->
                                [edges[k] EXCEPT !.controlOffsetX = <<>>,
                                                 !.controlOffsetY = <<>>]]

\* the texts the claim says an importer must fail on: no JSON, the wrong top-level
\* shape, a validation error, an invalid item at any index
MustFail(format, text) ==
    \/ text = SyntaxError
    \/ ~JsonObject(text)
    \/ format = "service-schema" /\ ~Conforms(text)
    \/ format = "schema-export"
       /\ \/ ~Present(text, "nodes") \/ ~Present(text, "edges")
          \/ text.o.nodes.t # "arr" \/ text.o.edges.t # "arr"
          \/ \E i \in DOMAIN text.o.nodes.a :
                LET n == text.o.nodes.a[i]
                IN  \/ ~JsonObject(n)
                    \/ ~NonEmptyStringAt(n, "id") \/ ~NonEmptyStringAt(n, "name")
                    \/ ~Present(n, "x") \/ ~Present(n, "y")
                    \/ n.o.x.t # "num" \/ n.o.y.t # "num"
          \/ \E i \in DOMAIN text.o.edges.a :
                LET e == text.o.edges.a[i]
                IN  \/ ~JsonObject(e)
                    \/ ~NonEmptyStringAt(e, "id") \/ ~NonEmptyStringAt(e, "source")
                    \/ ~NonEmptyStringAt(e, "target")

\* the attempts of the dialog that must fail
FailingAttempts == {a \in ImportFormats \X ModalTexts : MustFail(a[1], a[2])}

\* C7: whenever an importer fails (no JSON, wrong top-level shape, a validation error, an
\* invalid item at any index) it throws and returns no nodes and no edges, the import
\* dialog does not call onImport, and the working graph (nodes, edges, selection) is
\* exactly what it was before the attempt.
C7_FailedImportChangesNothing ==
    [][\A attempt \in FailingAttempts :
          handleImport(attempt[1], attempt[2]) =>
              /\ ~ImportResults[attempt].ok
              /\ DOMAIN ImportResults[attempt] = {"ok", "message"}
              /\ UNCHANGED <<nodes, edges, selected>>
              /\ showImport' /\ modalError' # <<>>]_vars

\* an import has just failed in the dialog, over an edited graph with a selection
C7_Witness ==
    /\ showImport /\ modalError # <<>>
    /\ nodes # DEMO_NODES /\ nodes # <<>> /\ selected # <<>>

-----------------------------------------------------------------------------
(* Claims about the flat snapshot importer *)

\* the flat importer has been applied to the text and has returned
ImportedFlat == call = "importSchemaExport" /\ result.ok

\* C11: for every payload that importSchemaExport accepts, the returned nodes have
\* pairwise distinct ids and the returned edges have pairwise distinct ids: a payload
\* that repeats a node id or an edge id is rejected or gets fresh ids.
C11_DistinctIds ==
    ImportedFlat =>
        /\ \A i, k \in DOMAIN result.nodes : result.nodes[i].id = result.nodes[k].id => i = k
        /\ \A i, k \in DOMAIN result.edges : result.edges[i].id = result.edges[k].id => i = k

\* the type a flat node entry is imported with
LenientNodeType(n) == IF KeyAt(n, "type", NODE_TYPE_KEYS) THEN n.o.type.s ELSE "external"
\* the type a flat edge entry is imported with
LenientEdgeType(e) == IF KeyAt(e, "type", EDGE_TYPE_KEYS) THEN <<e.o.type.s>> ELSE <<>>

\* some service entry of the document has a type that is no key of the node registry
SomeInvalidNodeType(doc) ==
    /\ HasServices(doc)
    /\ \E i \in DOMAIN doc.o.services.a :
          JsonObject(doc.o.services.a[i]) /\ ~KeyAt(doc.o.services.a[i], "type", NODE_TYPE_KEYS)

\* C12: importSchemaExport never fails because of a type value: whenever the payload is
\* well-formed in everything but its types the import succeeds; a node whose type is
\* missing or no node-type key is imported with type 'external', an edge whose type is
\* missing or no integration-type key is imported with no type, and every other field
\* of that node or edge is imported as it stands; the same invalid node type makes
\* importServiceSchema fail.
C12_LenientTypes ==
    /\ (call = "importSchemaExport" /\ ~MustFail("schema-export", json)) =>
          /\ result.ok
          /\ Len(result.nodes) = Len(json.o.nodes.a)
          /\ Len(result.edges) = Len(json.o.edges.a)
          /\ \A i \in DOMAIN json.o.nodes.a :
                LET n == json.o.nodes.a[i]
                IN  result.nodes[i] =
                        GraphNode(n.o.id.s, n.o.name.s, LenientNodeType(n),
                                  OptionalString(n, "namespace"), n.o.x.n, n.o.y.n,
                                  <<>>, <<>>)
          /\ \A k \in DOMAIN json.o.edges.a :
                LET e == json.o.edges.a[k]
                IN  result.edges[k] =
                        GraphEdge(e.o.id.s, e.o.source.s, e.o.target.s, LenientEdgeType(e),
                                  OptionalString(e, "label"), <<>>, <<>>)
    /\ (call = "importServiceSchema" /\ json # SyntaxError /\ SomeInvalidNodeType(json)) =>
          ~result.ok

\* a snapshot with a node of an unknown type and an edge of an unknown type was imported:
\* the node came back as 'external', the edge without type
C12_Witness ==
    /\ ImportedFlat
    /\ \E i \in DOMAIN json.o.nodes.a :
          /\ Present(json.o.nodes.a[i], "type") /\ json.o.nodes.a[i].o.type = JStr("bogus")
          /\ result.nodes[i].type = "external"
    /\ \E k \in DOMAIN json.o.edges.a :
          /\ Present(json.o.edges.a[k], "type") /\ json.o.edges.a[k].o.type = JStr("bogus")
          /\ result.edges[k].type = <<>>

-----------------------------------------------------------------------------
(* Claims about what the layout keeps and what it depends on *)

\* a node with its position blanked
Unplaced(n) == [n EXCEPT !.x = 0, !.y = 0]
\* the nodes of a list with their positions blanked
UnplacedAll(ns) == [i \in DOMAIN ns |-> Unplaced(ns[i])]
\* the ids of a list of nodes
IdsOf(ns) == [i \in DOMAIN ns |-> ns[i].id]

\* C13: computeLayout returns exactly one output node per input node (the same multiset
\* of ids: none added, dropped or duplicated, also when edges reference ids that are not
\* nodes), each output node equals its input node in every field except x and y, and
\* the input array and its node objects are not modified.
C13_SameNodesOnlyMoved ==
    [][CallComputeLayout =>
          /\ Len(lout') = Len(lnodes)
          /\ SameBag(IdsOf(lout'), IdsOf(lnodes))
          /\ SameBag(UnplacedAll(lout'), UnplacedAll(lnodes))
          /\ lnodes' = lnodes /\ ledges' = ledges]_vars

\* the layout has run on styled nodes with an edge that starts at a node and ends at an
\* id that is no node, and on the list that holds an id twice
C13_Witness ==
    /\ lpc = "done" /\ Len(lout) = 3
    /\ \E i \in DOMAIN lnodes : lnodes[i].width # undefined
    /\ \/ \E k \in DOMAIN ledges :
             /\ \E i \in DOMAIN lnodes : lnodes[i].id = ledges[k].source
             /\ \A i \in DOMAIN lnodes : lnodes[i].id # ledges[k].target
       \/ Count(IdsOf(lnodes), "A") = 2

\* the list of nodes carried to other positions, nothing else changed
Moved(ns) == [i \in DOMAIN ns |-> [ns[i] EXCEPT !.x = @ + 100 * i, !.y = 7 - @]]
\* where each node of a returned list has been put, in the order of the list
Positions(out) == [i \in DOMAIN out |-> <<out[i].id, out[i].x, out[i].y>>]

\* C14: computeLayout is deterministic: the positions are a function of the node list
\* (order, namespaces, sizes) and the edge list alone, and they do not depend on the x
\* and y the input nodes carried: the same lists with the nodes carried elsewhere get
\* the same x and y for every node.
C14_PositionsIgnoreInputPositions ==
    lpc = "done" => Positions(computeLayout(Moved(lnodes), ledges)) = Positions(lout)

\* the layout has run on nodes that carried positions of their own and has put three of
\* them into two columns
C14_Witness ==
    /\ lpc = "done" /\ Len(lout) >= 3
    /\ \E i \in DOMAIN lnodes : lnodes[i].x # 0 /\ lnodes[i].y # 0
    /\ Cardinality({lout[i].x : i \in DOMAIN lout}) = 2
    /\ \E i \in DOMAIN lout : lout[i].x # lnodes[i].x

\* every order the node ids may be chained in
ChainOrders == {p \in InjectiveSeqs(Range(LayoutIds), Len(LayoutIds)) : Len(p) >= 2}

\* the edge list is the linear chain p[1] -> p[2] -> ... and holds no other edge
IsChain(es, p) ==
    /\ Len(es) = Len(p) - 1
    /\ {<<es[k].source, es[k].target>> : k \in DOMAIN es}
         = {<<p[i], p[i + 1]>> : i \in 1..(Len(p) - 1)}

\* C15: for a linear chain v0 -> v1 -> ... -> v(n-1) with no other edges, computeLayout
\* puts vi in column i, each hop one column further, whatever the order of the node list
\* and of the edge list.
C15_ChainColumns ==
    LaidOut =>
        \A p \in ChainOrders :
            IsChain(ledges, p) => \A i \in DOMAIN p : ColumnOf(lout, p[i]) = i - 1

\* the chain of all four nodes was laid out from an edge list and a node list that are
\* not in the order of the chain
C15_Witness ==
    /\ LaidOut /\ Len(lnodes) = 4
    /\ \E p \in ChainOrders :
          /\ Len(p) = 4 /\ IsChain(ledges, p)
          /\ ledges[1].source # p[1]
          /\ lnodes[1].id # p[1]
          /\ ColumnOf(lout, p[4]) = 3

-----------------------------------------------------------------------------
(* Claims about the operations of the graph state *)

\* some edge connects the two nodes, in either direction
Connected(es, a, b) ==
    \E k \in DOMAIN es : \/ es[k].source = a /\ es[k].target = b
                         \/ es[k].source = b /\ es[k].target = a

\* at most one edge per unordered pair of nodes
AtMostOnePerPair(es) ==
    \A i, k \in DOMAIN es :
        (\/ es[i].source = es[k].source /\ es[i].target = es[k].target
         \/ es[i].source = es[k].target /\ es[i].target = es[k].source) => i = k

\* C16: addEdge(s, t) follows the strict duplicate policy: it leaves the edge list
\* unchanged when some edge already connects s and t in either direction, and otherwise
\* appends exactly one new edge s -> t; so from an edge list with at most one edge per
\* unordered pair every operation of the graph state (addEdge, removeEdge, removeNode
\* among them) keeps at most one edge per unordered pair.
C16_StrictDuplicatePolicy ==
    [][/\ \A s \in ConnectIds, t \in ConnectIds, tok \in GEN_IDS :
             (OneOp /\ addEdge(s, t, undefined, tok)) =>
                 IF Connected(edges, s, t)
                 THEN edges' = edges
                 ELSE /\ Len(edges') = Len(edges) + 1
                      /\ SubSeq(edges', 1, Len(edges)) = edges
                      /\ edges'[Len(edges')].source = s
                      /\ edges'[Len(edges')].target = t
       /\ AtMostOnePerPair(edges) => AtMostOnePerPair(edges')]_vars

\* after e1 (api-gateway -> user-service) was removed the same pair was connected
\* again by addEdge, and a third operation added no edge
C16_Witness ==
    /\ ops = 3
    /\ Len(edges) = Len(DEMO_EDGES)
    /\ \A k \in DOMAIN edges : edges[k].id # "e1"
    /\ edges[Len(edges)].id \in GEN_IDS
    /\ edges[Len(edges)].source = "api-gateway"
    /\ edges[Len(edges)].target = "user-service"
    /\ AtMostOnePerPair(edges)

\* the step changes no edge and, of the nodes, only the fields keys of the nodes with
\* the id
OnlyNodeFields(id, keys) ==
    /\ edges' = edges
    /\ Len(nodes') = Len(nodes)
    /\ \A i \in DOMAIN nodes :
          IF nodes[i].id # id THEN nodes'[i] = nodes[i]
          ELSE \A f \in DOMAIN nodes[i] \ keys : nodes'[i][f] = nodes[i][f]
    /\ ~HasNode(id) => nodes' = nodes

\* the same for the edges
OnlyEdgeFields(id, keys) ==
    /\ nodes' = nodes
    /\ Len(edges') = Len(edges)
    /\ \A k \in DOMAIN edges :
          IF edges[k].id # id THEN edges'[k] = edges[k]
          ELSE \A f \in DOMAIN edges[k] \ keys : edges'[k][f] = edges[k][f]
    /\ ~HasEdge(id) => edges' = edges

\* C17: updateNode, updateEdge, removeNode and removeEdge called with an id that matches
\* no node (resp. no edge) raise no error and leave the node list and the edge list
\* unchanged; updateNode and updateEdge on an existing id change only that element and
\* only the fields present in the patch.
C17_MissingIdNoOp ==
    [][/\ \A id \in GraphNodeIds, patch \in NodePatches :
             (OneOp /\ (updateNode(id, patch) \/ updateNodeRF(id, patch)))
                 => OnlyNodeFields(id, DOMAIN patch)
       /\ \A id \in PatchedEdgeIds, patch \in EdgePatches :
             (OneOp /\ (updateEdge(id, patch) \/ updateEdgeRF(id, patch)))
                 => OnlyEdgeFields(id, DOMAIN patch)
       /\ \A id \in GraphNodeIds :
             (CallRemoveNode(id) /\ ~HasNode(id)) => (nodes' = nodes /\ edges' = edges)
       /\ \A id \in GraphEdgeIds :
             (OneOp /\ removeEdge(id) /\ ~HasEdge(id)) => (nodes' = nodes /\ edges' = edges)]_vars

\* some edge starts or ends at the id
Referenced(id) == \E k \in DOMAIN edges : edges[k].source = id \/ edges[k].target = id

\* C17, where it holds: the same, a removeNode of an id that is no node but is still
\* named by an edge set aside
C17_ExceptDanglingEdges ==
    [][/\ \A id \in GraphNodeIds, patch \in NodePatches :
             (OneOp /\ (updateNode(id, patch) \/ updateNodeRF(id, patch)))
                 => OnlyNodeFields(id, DOMAIN patch)
       /\ \A id \in PatchedEdgeIds, patch \in EdgePatches :
             (OneOp /\ (updateEdge(id, patch) \/ updateEdgeRF(id, patch)))
                 => OnlyEdgeFields(id, DOMAIN patch)
       /\ \A id \in GraphNodeIds :
             (CallRemoveNode(id) /\ ~HasNode(id) /\ ~Referenced(id))
                 => (nodes' = nodes /\ edges' = edges)
       /\ \A id \in GraphEdgeIds :
             (OneOp /\ removeEdge(id) /\ ~HasEdge(id)) => (nodes' = nodes /\ edges' = edges)]_vars

\* C18: after any sequence of addNode calls (any names, the same name repeated, on top
\* of any existing graph) all node ids in the graph are pairwise distinct.
C18_DistinctNodeIds ==
    \A i, k \in DOMAIN nodes : nodes[i].id = nodes[k].id => i = k

-----------------------------------------------------------------------------
(* Claims about the diagram markup *)

\* the distinct non-empty namespaces of the nodes
NonEmptyNamespaces ==
    {nodes[i].namespace[1] :
        i \in {j \in DOMAIN nodes : nodes[j].namespace # <<>> /\ nodes[j].namespace[1] # ""}}

\* the nodes that have the namespace, and the nodes that have none or the empty one
NodesIn(namespace) == SelectSeq(nodes, LAMBDA n : n.namespace = <<namespace>>)
NodesOutside == SelectSeq(nodes, LAMBDA n : n.namespace = <<>> \/ n.namespace = <<"">>)

\* the texts an arrow may be annotated with
ArrowTexts == {"REST", "calls", "db", "x"}

\* C19: toMermaid emits, after the header line, exactly one declaration line per node
\* and exactly one arrow line per edge (in edge order, source id left, target id right),
\* and for each distinct non-empty namespace exactly one subgraph ... end pair that
\* encloses exactly the declarations of the nodes having that namespace; nodes with
\* absent or empty namespace are declared outside every pair; the line count is
\* 1 + nodes + 2 * (distinct non-empty namespaces) + edges.
C19_MermaidStructure ==
    mermaid # <<>> =>
        LET blocks == Len(nodes) - Len(NodesOutside) + 2 * Cardinality(NonEmptyNamespaces)
        IN  /\ mermaid[1] = "graph LR"
            /\ Len(mermaid) = 1 + Len(nodes) + 2 * Cardinality(NonEmptyNamespaces) + Len(edges)
            /\ Cardinality({i \in DOMAIN mermaid : mermaid[i] = "  end"})
                 = Cardinality(NonEmptyNamespaces)
            /\ \A i \in DOMAIN mermaid :
                  (\E n \in {"", "infra", "backend"} : mermaid[i] = "  subgraph " \o n)
                      => 1 < i /\ i <= 1 + blocks
            /\ \A namespace \in NonEmptyNamespaces :
                  LET opens == {i \in DOMAIN mermaid : mermaid[i] = "  subgraph " \o namespace}
                      b == CHOOSE i \in opens : TRUE
                      inside == NodesIn(namespace)
                  IN  /\ Cardinality(opens) = 1
                      /\ b + Len(inside) + 1 <= 1 + blocks
                      /\ \A j \in DOMAIN inside :
                            mermaid[b + j] = "    " \o Declaration(inside[j])
                      /\ mermaid[b + Len(inside) + 1] = "  end"
            /\ \A j \in DOMAIN NodesOutside :
                  mermaid[1 + blocks + j] = "  " \o Declaration(NodesOutside[j])
            /\ \A k \in DOMAIN edges :
                  LET line == mermaid[1 + blocks + Len(NodesOutside) + k]
                  IN  \/ line = "  " \o edges[k].source \o " --> " \o edges[k].target
                      \/ \E text \in ArrowTexts :
                            line = "  " \o edges[k].source \o " -->|" \o text \o "| "
                                   \o edges[k].target

\* a graph whose first and third node share a namespace and whose second node has
\* another was exported with two edges: 1 + 3 + 2 * 2 + 2 lines
C19_Witness ==
    /\ mermaid # <<>> /\ Len(nodes) = 3 /\ Len(edges) = 2
    /\ nodes[1].namespace = <<"infra">> /\ nodes[2].namespace = <<"backend">>
    /\ nodes[3].namespace = <<"infra">> /\ nodes[1] # nodes[3]
    /\ Len(mermaid) = 10

-----------------------------------------------------------------------------
(* Claims about the termination of the layout *)

\* C20: computeLayout terminates and returns for every finite node and edge input,
\* graphs with cycles included (cycles entered from a source, and cycles no node
\* without incoming edges leads into); so importServiceSchema, which calls it on the
\* nodes and edges it has built, terminates for every valid document whose
\* integrations form a cycle.
C20_LayoutTerminates == <>(lpc = "done" /\ Len(lout) = Len(lnodes))

\* the loop of src/unnamed/part_003 always ends, and the layout returns every node
FirstDiscoveryTerminates == (lpc = "bfs") ~> (lpc = "done" /\ Len(lout) = Len(lnodes))

\* the layout of src/unnamed/part_003 has returned for three nodes of which two lie on a
\* cycle that the third, a node without incoming edges, leads into
FirstDiscoveryDoneOnCycle ==
    /\ lpc = "done" /\ Len(lout) = 3
    /\ \E j, k \in DOMAIN ledges :
          /\ ledges[j].source = ledges[k].target /\ ledges[j].target = ledges[k].source
          /\ ledges[j].source # ledges[j].target
          /\ \E m \in DOMAIN ledges :
                /\ ledges[m].target = ledges[j].source
                /\ \A q \in DOMAIN ledges : ledges[q].target # ledges[m].source
    /\ lbfs.head = Len(lbfs.queue) /\ Len(lbfs.queue) = 3

\* run step by step, the computeLayout of part_003 returns what it returns as one step
BfsAgreesWithComputeLayout ==
    [][LayoutEnd => lout' = computeLayout(lnodes, ledges)]_vars

\* the ids of nodes from which a path of one or more edges, through nodes only, leads
\* back to themselves (an id that is no node has no outgoing list)
OnCycle ==
    LET ids == {lnodes[i].id : i \in DOMAIN lnodes}
        between == {i \in DOMAIN ledges : ledges[i].source \in ids /\ ledges[i].target \in ids}
        RECURSIVE Reach(_, _)
        Reach(from, n) ==
            IF n = 0 THEN from
            ELSE Reach(from \cup {ledges[i].target : i \in {j \in between :
                                                              ledges[j].source \in from}}, n - 1)
    IN  {id \in ids : id \in Reach({ledges[i].target : i \in {j \in between :
                                                                ledges[j].source = id}},
                                    Len(ledges))}

\* the next iteration of part_002's loop would start from a node at the cap
RelaxStuck ==
    /\ lpc = "relax" /\ lbfs.head < Len(lbfs.queue)
    /\ lbfs.depth[lbfs.queue[lbfs.head + 1]] >= BfsDepthCap

\* part_002's loop comes to the cap only from a node of the input on a cycle of edges
\* between nodes; without such a cycle it ends
RelaxStuckOnlyOnCycle ==
    RelaxStuck => OnCycle # {}

\* part_002's loop is never left when a node of the input lies on a cycle
RelaxNeverReturnsOnCycle ==
    [][LayoutEndRelax => OnCycle = {}]_vars

\* in the loops that end, no depth comes near the cap
BfsCapNeverBinds ==
    (lpc = "bfs" \/ (lpc = "relax" /\ OnCycle = {}))
    => \A id \in DOMAIN lbfs.depth : lbfs.depth[id] < BfsDepthCap - 1

-----------------------------------------------------------------------------
(* Claims about the editor's state under the user's events *)

\* every edge of es has a source and a target among the ids of ns
Closed(ns, es) ==
    \A k \in DOMAIN es :
        /\ \E i \in DOMAIN ns : ns[i].id = es[k].source
        /\ \E i \in DOMAIN ns : ns[i].id = es[k].target

\* the step imports a graph with an edge to or from an id that is none of its nodes
ImportsOpenGraph ==
    \E format \in ImportFormats, text \in ModalTexts :
        /\ handleImport(format, text)
        /\ ImportResults[format, text].ok
        /\ ~Closed(ImportResults[format, text].nodes, ImportResults[format, text].edges)

\* C21: in the editor, from the demo graph and under every interleaving of the user's
\* events (mode switches, clicks on nodes in connect mode, selecting, deleting the
\* selection, Escape, imports of graphs whose edges name only their own nodes), every
\* edge of the working graph has a source and a target that are ids of nodes of the
\* graph: the demo graph is closed, and no event but the import of a graph that is
\* not closed leads from a closed graph to one that is not.
C21_EdgesNameNodes ==
    /\ Init => Closed(nodes, edges)
    /\ [][(Closed(nodes, edges) /\ ~ImportsOpenGraph) => Closed(nodes', edges')]_vars

-----------------------------------------------------------------------------
(* Claims about the columns and rows of the layout *)

\* the ids of the nodes that no path of edges through nodes reaches from a node
\* without incoming edges
UnreachedIds(ns, es) ==
    LET ids == {ns[i].id : i \in DOMAIN ns}
        between == SelectSeq(es, LAMBDA e : e.source \in ids /\ e.target \in ids)
        sourceIds == {id \in ids : EdgesInto(es, id) = {}}
    IN  ids \ ReachedIn(between, sourceIds, Len(es))

\* C22: every node that cannot be reached along edges from a node without incoming
\* edges (the members of a cycle nothing leads into, and the nodes reachable only from
\* such a cycle) is given depth 0 by computeLayout and placed in the first column, x = 60.
C22_UnreachedInFirstColumn ==
    lpc = "done" =>
        \A i \in DOMAIN lout :
            lout[i].id \in UnreachedIds(lnodes, ledges) => lout[i].x = 60

\* the computeLayout of src/unnamed/part_003 gives every such node depth 0
FirstDiscoveryUnreachedDepth ==
    \A id \in UnreachedIds(lnodes, ledges) : ComputeDepth(lnodes, ledges)[id] = 0

\* laid out by src/unnamed/part_003: A and C on a cycle nothing leads into, D reachable
\* only from that cycle, and the source B apart from them, all four in the first column
FirstDiscoveryUnreachedPlaced ==
    /\ lpc = "done" /\ Len(lout) = 4
    /\ UnreachedIds(lnodes, ledges) = {"A", "C", "D"}
    /\ {<<ledges[k].source, ledges[k].target>> : k \in DOMAIN ledges}
          = {<<"A", "C">>, <<"C", "A">>, <<"C", "D">>}
    /\ \A i \in DOMAIN lout : lout[i].x = 60

\* a node's effective width and height: the explicit one if set, else the default
EffectiveWidth(n) == IF n.width = <<>> THEN 172 ELSE n.width[1]
EffectiveHeight(n) == IF n.height = <<>> THEN 58 ELSE n.height[1]

\* the x of the columns of the output, and the output's nodes at one x
ColumnXs == {lout[i].x : i \in DOMAIN lout}
NodesAt(x) == SelectSeq(lout, LAMBDA n : n.x = x)
\* the largest effective width among the nodes at x
WidestAt(x) ==
    LET ws == {EffectiveWidth(lout[i]) : i \in {j \in DOMAIN lout : lout[j].x = x}}
    IN  CHOOSE w \in ws : \A v \in ws : v <= w

\* C23: in the output of computeLayout the first column has x = 60, each later column's
\* x is the previous column's x plus the largest effective width among the previous
\* column's nodes (the explicit width if set, else 172) plus COL_GAP (80), for explicit
\* widths in 120..400, and all nodes of a column share one x.
C23_ColumnOffsets ==
    (lpc = "done" /\ lout # <<>>) =>
        /\ \A x \in ColumnXs : x >= 60
        /\ 60 \in ColumnXs
        /\ \A x \in ColumnXs :
              (\E y \in ColumnXs : y > x) =>
                  (CHOOSE y \in ColumnXs : y > x /\ \A z \in ColumnXs : z > x => y <= z)
                      = x + WidestAt(x) + 80
        /\ \A i, j \in DOMAIN lout :
              (ComputeDepth(lnodes, ledges)[lout[i].id] = ComputeDepth(lnodes, ledges)[lout[j].id])
                  <=> (lout[i].x = lout[j].x)

\* C23 where every column's widest node is at least as wide as the default (172): the
\* offset the code adds is the greater of 172 and the explicit widths
C23_ExceptNarrowColumns ==
    (lpc = "done" /\ lout # <<>>) =>
        /\ 60 \in ColumnXs /\ \A x \in ColumnXs : x >= 60
        /\ \A x \in ColumnXs :
              (\E y \in ColumnXs : y > x) =>
                  (CHOOSE y \in ColumnXs : y > x /\ \A z \in ColumnXs : z > x => y <= z)
                      = x + (IF WidestAt(x) < 172 THEN 172 ELSE WidestAt(x)) + 80
        /\ \A i, j \in DOMAIN lout :
              (ComputeDepth(lnodes, ledges)[lout[i].id] = ComputeDepth(lnodes, ledges)[lout[j].id])
                  <=> (lout[i].x = lout[j].x)

\* the place of a namespace in lexicographic order, absent and empty first
NamespaceRank(n) ==
    CASE n.namespace = <<>> -> 0
      [] n.namespace = <<"">> -> 0
      [] n.namespace = <<"backend">> -> 1
      [] n.namespace = <<"infra">> -> 2
      [] n.namespace = <<"ns">> -> 3

\* the place in the input list of a node of the output
InputIndex(n) == CHOOSE k \in DOMAIN lnodes : Unplaced(lnodes[k]) = Unplaced(n)

\* C24: within each column of computeLayout's output the nodes appear top to bottom in
\* non-decreasing namespace order, absent and empty namespaces first, and nodes of
\* equal namespace keep their input order (the sort is stable); the first node of a
\* column has y = 60 and each next node's y is the previous y plus the previous node's
\* effective height plus ROW_GAP (40).
C24_RowsOfAColumn ==
    lpc = "done" =>
        \A x \in ColumnXs :
            LET col == NodesAt(x)
            IN  /\ col[1].y = 60
                /\ \A r \in 1..(Len(col) - 1) :
                      /\ col[r + 1].y = col[r].y + EffectiveHeight(col[r]) + 40
                      /\ NamespaceRank(col[r]) <= NamespaceRank(col[r + 1])
                      /\ NamespaceRank(col[r]) = NamespaceRank(col[r + 1])
                            => InputIndex(col[r]) < InputIndex(col[r + 1])

\* the styled nodes given as D, C, B, A without edges are one column: D and C (absent
\* and empty namespace) in their input order, then B (backend), then A (infra), with
\* the heights 48, 58, 100 between them
C24_Witness ==
    /\ lpc = "done" /\ ledges = <<>>
    /\ lnodes = <<StyledNode("D"), StyledNode("C"), StyledNode("B"), StyledNode("A")>>
    /\ IdsOf(lout) = <<"D", "C", "B", "A">>
    /\ [i \in DOMAIN lout |-> lout[i].y] = <<60, 148, 246, 386>>

-----------------------------------------------------------------------------
(* Claims about the canvas *)

\* C25: while the pan/zoom lock is on, the canvas transform (panX, panY, zoom) never
\* changes: a pan drag's start, the wheel, the zoom-in, zoom-out and fit-view controls,
\* and the mouse moves of a pan drag that was under way when the lock was switched on
\* all leave it as it is.
C25_LockedTransformFixed == [][isPanLocked => canvas' = canvas]_vars

\* while the lock is on, the transform changes only by the zoom-in, zoom-out and
\* fit-view controls and by the moves of a drag that began before the lock
C25_ExceptControlsAndMoves ==
    [][(isPanLocked /\ canvas' # canvas) =>
          \/ zoomIn \/ zoomOut \/ fitView
          \/ \E p \in ClientPoints : onMove(p[1], p[2])]_vars

\* while the lock is on no pan drag begins
LockedNoPanStart == [][(isPanLocked /\ panDragRef = <<>>) => panDragRef' = <<>>]_vars

-----------------------------------------------------------------------------
(* Claims about the validator and the construction phase of the importer *)

\* C26: whenever validateServiceSchema returns no errors for a parsed document, the
\* construction phase of importServiceSchema never throws: none of its checks per
\* service or per integration (id, name, node type, integration target, integration
\* type) can fail, so every document the validator accepts is imported; the only
\* errors importServiceSchema throws are the parse error and the validation errors.
C26_AcceptedIsImported ==
    call = "importServiceSchema" =>
        /\ (json # SyntaxError /\ validateServiceSchema(json) = <<>>) => result.ok
        /\ ~result.ok =>
              \/ json = SyntaxError
                 /\ result.message = "Invalid JSON: could not parse the input."
              \/ /\ json # SyntaxError /\ validateServiceSchema(json) # <<>>
                 /\ result.message
                      = "Validation errors:\n" \o JoinLines(validateServiceSchema(json))

\* an accepted document with three services, one of them with an integration of a
\* registry type, has passed the construction phase
C26_Witness ==
    /\ call = "importServiceSchema" /\ result.ok
    /\ validateServiceSchema(json) = <<>>
    /\ Len(result.nodes) = 3
    /\ \E k \in DOMAIN result.edges : result.edges[k].type = <<"cache">>

-----------------------------------------------------------------------------
(* Claims about the selection and the connect gesture *)

\* C27: in every reachable state of the editor the selection is empty or names an
\* element of its kind that is in the graph: after deleting the selection, after a
\* cascade delete and after an import the selection never names a node or edge that
\* is gone.
C27_SelectionExists == selected # <<>> => (selectedNode \/ selectedEdge)

\* the selected node api-gateway has been deleted, its edges with it, and nothing is
\* selected
C27_Witness ==
    /\ ~HasNode("api-gateway") /\ HasNode("user-service")
    /\ ~HasEdge("e1") /\ HasEdge("e4")
    /\ selected = <<>> /\ ops = 1

\* C28: in every reachable state of the editor connectFrom is non-null only while the
\* mode is 'connect'; a mode switch, Escape, and the click that completes or cancels a
\* connect gesture all leave connectFrom null; and connect mode is entered with an
\* empty selection.
C28_PendingOnlyInConnectMode ==
    /\ [](connectFrom # <<>> => mode = "connect")
    /\ [][/\ mode' # mode => connectFrom' = <<>>
          /\ (mode # "connect" /\ mode' = "connect") => selected' = <<>>
          /\ (connectFrom # <<>> /\ connectFrom' # connectFrom) => connectFrom' = <<>>
          /\ resetMode => (connectFrom' = <<>> /\ mode' = "select")]_vars

\* a connect gesture has been completed (the graph has one edge more) and the next
\* one is pending
C28_Witness ==
    /\ mode = "connect" /\ connectFrom = <<"redis-cache">>
    /\ Len(edges) = Len(DEMO_EDGES) + 1 /\ nodes = DEMO_NODES

\* no edge of es starts and ends in one node
NoSelfLoop(es) == \A k \in DOMAIN es : es[k].source # es[k].target

\* the step replaces the graph by an imported one
ImportsGraph ==
    \E format \in ImportFormats, text \in ModalTexts :
        handleImport(format, text) /\ ImportResults[format, text].ok

\* C29: the connect gesture never creates a self-loop: from a graph without self-loops
\* (the demo graph is one), after any sequence of clicks on nodes in connect mode (the
\* same node twice included), mode switches and deletes, no edge has source = target;
\* the click on the pending source node only cancels the pending connection.
C29_NoSelfLoop ==
    /\ Init => NoSelfLoop(edges)
    /\ [][/\ (NoSelfLoop(edges) /\ ~ImportsGraph) => NoSelfLoop(edges')
          /\ (connectFrom # <<>> /\ onNodeClick(connectFrom[1])) =>
                (edges' = edges /\ nodes' = nodes /\ connectFrom' = <<>>
                 /\ selected' = selected /\ mode' = mode)]_vars

\* a connect gesture from api-gateway to redis-cache has added its edge, the last of
\* the graph, and nothing is pending
C29_Witness ==
    /\ mode = "connect" /\ connectFrom = <<>>
    /\ Len(edges) = Len(DEMO_EDGES) + 1
    /\ edges[Len(edges)].source = "api-gateway" /\ edges[Len(edges)].target = "redis-cache"

-----------------------------------------------------------------------------
(* Claims about running the layout again *)

\* C30: computeLayout is a fixed point on its own output: for any nodes and edges,
\* computeLayout(computeLayout(nodes, edges), edges) gives every node the x and y that
\* computeLayout(nodes, edges) gave it, so laying out a laid-out graph moves nothing.
C30_LayoutFixedPoint ==
    lpc = "done" =>
        LET again == computeLayout(lout, ledges)
        IN  /\ Len(again) = Len(lout)
            /\ \A i \in DOMAIN lout : again[i] = lout[i]

\* the layout with relaxation: a call that returns returns what the function gives
RelaxAgreesWithFunction ==
    [][LayoutEndRelax => lout' = computeLayoutRelax(lnodes, ledges)]_vars

\* the layout with relaxation, where it returns, is a fixed point on its own output too
RelaxFixedPoint ==
    [][LayoutEndRelax => computeLayoutRelax(lout', ledges) = lout']_vars

\* the layout with relaxation returned nodes in another order than they were given in
RelaxReordered ==
    lpc = "done" /\ lbfs.head > 0 /\ Len(lout) = Len(lnodes)
    /\ IdsOf(lout) # IdsOf(lnodes) /\ lout = computeLayoutRelax(lnodes, ledges)

\* laid out: four nodes in two or more columns, returned in another order than they
\* were given in, so that the second call starts from another node order
C30_Witness ==
    /\ lpc = "done" /\ Len(lout) = 4
    /\ IdsOf(lout) # IdsOf(lnodes)
    /\ Cardinality(ColumnXs) >= 2
    /\ \E i \in DOMAIN lnodes : lnodes[i].namespace # <<>>
    /\ \E j, k \in DOMAIN ledges : ledges[j].source = ledges[k].target

====
